---------------------------- MODULE Spec2Model ----------------------------
(***************************************************************************)
(* Model of the resumable download engine of sharepoint_backup.py: the     *)
(* SQLite progress store (downloads, sites, statistics), the site          *)
(* orchestrator (backup_sharepoint_site / main), the discovery walk, and   *)
(* the worker threads (worker / download_file).                            *)
(***************************************************************************)
EXTENDS Integers, Sequences, FiniteSets, TLC

(***************************************************************************)
(* Configuration and bounds                                                *)
(***************************************************************************)
\* config['MAX_RETRY'], default 3
MAX_RETRY == 3
\* config['NUM_THREADS'] (default 5), kept small in the model
NUM_THREADS == 2
\* thread slots: the NUM_THREADS workers of a pass plus workers that
\* outlived the join timeout of an earlier pass
MaxThreads == 3
\* number of program runs (process starts) in one behaviour
MaxRuns == 2
\* largest attempt_count drawn for a pre-existing row in StoreInit
MaxInitAttempt == 1

\* SQL NULL / Python None for a numeric column
NULL == -1
\* bytes per megabyte, as in bytes_to_mb
MB == 1048576
\* the statistics rows init_database inserts into a new database
STAT_ROWS == 6
\* main re-authenticates after every REAUTH_EVERY-th site
REAUTH_EVERY == 5

Sites == {"s1", "s2"}
Libraries == {"L1", "L2", "L3"}
Paths == {"A", "B", "C"}
FileStatus == {"discovered", "downloading", "completed", "failed"}
\* the queue's poison pill (None)
SENTINEL == "None"

(***************************************************************************)
(* The progress store: pure operators on table values                      *)
(***************************************************************************)
bytes_to_mb(bytes_size) == IF bytes_size # NULL /\ bytes_size # 0 THEN bytes_size \div MB ELSE 0

\* a value is "truthy" in Python: neither None nor 0
Truthy(v) == v # NULL /\ v # 0

HasRow(tbl, p) == \E r \in tbl : r.path = p
RowsOf(tbl, p) == {r \in tbl : r.path = p}
RowOf(tbl, p) == CHOOSE r \in tbl : r.path = p

\* get_file_status: (status, attempt_count), or (None, 0) when absent
get_file_status(tbl, p) ==
    IF HasRow(tbl, p) THEN [status |-> RowOf(tbl, p).st, attempt_count |-> RowOf(tbl, p).att]
    ELSE [status |-> "None", attempt_count |-> 0]

\* INSERT OR IGNORE INTO downloads ... VALUES (?, ..., 'discovered', 0, ...)
M_record_file_discovery_noignore(tbl, p, site_name, library_name, file_size_bytes) ==
    tbl \cup {[path |-> p, site |-> site_name, lib |-> library_name,
               size |-> IF Truthy(file_size_bytes) THEN bytes_to_mb(file_size_bytes) ELSE NULL,
               st |-> "discovered", att |-> 0]}

record_file_discovery(tbl, p, site_name, library_name, file_size_bytes) ==
    IF HasRow(tbl, p) THEN tbl
    ELSE tbl \cup {[path |-> p, site |-> site_name, lib |-> library_name,
                    size |-> IF Truthy(file_size_bytes) THEN bytes_to_mb(file_size_bytes) ELSE NULL,
                    st |-> "discovered", att |-> 0]}

\* what record_file_discovery returns to its caller: the function has no
\* return statement
record_file_discovery_result == "None"

\* UPDATE downloads SET status = 'downloading', attempt_count = attempt_count + 1
M_mark_downloading_count_only(tbl, p) ==
    {IF r.path = p THEN [r EXCEPT !.att = @ + 1] ELSE r : r \in tbl}

mark_downloading(tbl, p) ==
    {IF r.path = p THEN [r EXCEPT !.st = "downloading", !.att = @ + 1] ELSE r : r \in tbl}

\* update_download_status: the new downloads table and statistics
update_download_status(tbl, st, p, status, file_size_bytes) ==
    LET mb == IF Truthy(file_size_bytes) THEN bytes_to_mb(file_size_bytes) ELSE NULL
    IN  IF status = "completed"
        THEN [dl |-> {IF r.path = p
                      THEN [r EXCEPT !.st = "completed",
                                     !.size = IF mb # NULL THEN mb ELSE @]
                      ELSE r : r \in tbl},
              stats |-> [st EXCEPT !.successful_downloads = @ + 1,
                                   !.mb_downloaded = IF Truthy(mb) THEN @ + mb ELSE @]]
        ELSE IF status = "failed"
        THEN [dl |-> {IF r.path = p THEN [r EXCEPT !.st = "failed"] ELSE r : r \in tbl},
              stats |-> [st EXCEPT !.failed_downloads = @ + 1]]
        ELSE [dl |-> tbl, stats |-> st]

\* COUNT(*) ... WHERE site_name = ? [AND status = ?]
CountSite(tbl, s) == Cardinality({r \in tbl : r.site = s})
CountSiteStatus(tbl, s, status) == Cardinality({r \in tbl : r.site = s /\ r.st = status})
\* SUM(CASE WHEN status = ? THEN 1 ELSE 0 END) ... WHERE site_name = ?:
\* SQL's SUM over no rows is NULL
SumSiteStatus(tbl, s, status) ==
    IF CountSite(tbl, s) = 0 THEN NULL ELSE CountSiteStatus(tbl, s, status)

NoSite == [st |-> "absent", total |-> 0, completed |-> 0, failed |-> 0]

\* the status update_site_status derives from the counts
site_status_of_counts(total, completed, failed) ==
    IF total = 0 THEN "empty"
    ELSE IF completed = total THEN "completed"
    ELSE IF failed > 0 /\ completed + failed = total THEN "completed_with_errors"
    ELSE "processing"

\* update_site_status: UPDATE sites SET status, total_files, completed_files,
\* failed_files WHERE site_name = ? (no row, no effect)
update_site_status(stbl, tbl, s) ==
    LET total == CountSite(tbl, s)
        completed == SumSiteStatus(tbl, s, "completed")
        failed == SumSiteStatus(tbl, s, "failed")
    IN  IF stbl[s].st = "absent" THEN stbl
        ELSE [stbl EXCEPT ![s] = [st |-> site_status_of_counts(total, completed, failed),
                                  total |-> total, completed |-> completed, failed |-> failed]]

\* mark_site_started: INSERT OR REPLACE ... status 'processing'; the count
\* columns take their defaults
mark_site_started(stbl, s) ==
    [stbl EXCEPT ![s] = [st |-> "processing", total |-> 0, completed |-> 0, failed |-> 0]]

\* get_site_status: the (site_status, needs_processing) it returns
get_site_status_result(stbl, tbl, s) ==
    IF stbl[s].st = "absent" THEN [site_status |-> "new", needs |-> TRUE]
    ELSE IF CountSite(tbl, s) = 0 THEN [site_status |-> "pending", needs |-> TRUE]
    ELSE IF CountSiteStatus(tbl, s, "failed") > 0 THEN [site_status |-> "partial", needs |-> TRUE]
    ELSE IF CountSiteStatus(tbl, s, "discovered") > 0 \/ CountSiteStatus(tbl, s, "downloading") > 0
         THEN [site_status |-> "in_progress", needs |-> TRUE]
    ELSE IF CountSiteStatus(tbl, s, "completed") = CountSite(tbl, s)
         THEN [site_status |-> "completed", needs |-> FALSE]
    ELSE [site_status |-> "pending", needs |-> TRUE]

\* get_site_status: its write of the actual counts to an existing SiteRecord
get_site_status_write(stbl, tbl, s) ==
    IF stbl[s].st = "absent" THEN stbl
    ELSE [stbl EXCEPT ![s].total = CountSite(tbl, s),
                      ![s].completed = SumSiteStatus(tbl, s, "completed"),
                      ![s].failed = SumSiteStatus(tbl, s, "failed")]

\* should_retry_failed_files: the rows it selects, and the table after the reset
failed_files_to_retry(tbl, s) ==
    {r.path : r \in {x \in tbl : x.site = s /\ x.st = "failed" /\ x.att < MAX_RETRY}}

M_should_retry_failed_files_reset_count(tbl, s) ==
    {IF r.path \in failed_files_to_retry(tbl, s) THEN [r EXCEPT !.st = "discovered", !.att = 0]
     ELSE r : r \in tbl}

M_should_retry_failed_files_any_status(tbl, s) ==
    {IF r.site = s /\ r.att < MAX_RETRY THEN [r EXCEPT !.st = "discovered"] ELSE r : r \in tbl}

should_retry_failed_files(tbl, s) ==
    {IF r.path \in failed_files_to_retry(tbl, s) THEN [r EXCEPT !.st = "discovered"] ELSE r : r \in tbl}

\* --reset-site: DELETE FROM sites WHERE site_name = ?
reset_site_sites(stbl, s) == [stbl EXCEPT ![s] = NoSite]

\* --reset-site: UPDATE downloads SET status = 'discovered', attempt_count = 0
\* WHERE site_name = ? AND status != 'completed'
M_reset_site_downloads_all(tbl, s) ==
    {IF r.site = s THEN [r EXCEPT !.st = "discovered", !.att = 0] ELSE r : r \in tbl}

reset_site_downloads(tbl, s) ==
    {IF r.site = s /\ r.st # "completed" THEN [r EXCEPT !.st = "discovered", !.att = 0]
     ELSE r : r \in tbl}

\* rows init_database changes on the connection: its INSERT OR IGNORE of
\* the statistics rows inserts them in a new database only
init_database_changes(fresh) == IF fresh THEN STAT_ROWS ELSE 0

\* --reset-site: conn.total_changes, every row changed on the connection
\* since it was opened: by init_database, by the DELETE and by the UPDATE
reset_site_affected(stbl, tbl, s, fresh) ==
    init_database_changes(fresh)
    + (IF stbl[s].st # "absent" THEN 1 ELSE 0)
    + Cardinality({r \in tbl : r.site = s /\ r.st # "completed"})

InitStats == [successful_downloads |-> 0, failed_downloads |-> 0,
              skipped_existing |-> 0, mb_downloaded |-> 0]

(***************************************************************************)
(* State                                                                   *)
(***************************************************************************)
VARIABLES
    downloads,   \* the downloads table: a set of rows
    sites,       \* the sites table: site name -> row (NoSite when absent)
    stats,       \* the statistics table
    localSize,   \* the local output tree: path -> size in bytes, NULL if no file
    remote,      \* the remote provider's content (fixed in a behaviour)
    behav,       \* per file, how its download capability behaves
    orch,        \* the main thread: position in main / backup_sharepoint_site
    queues,      \* per site of the run, its download_queue
    threads,     \* the worker threads
    runs,        \* process starts so far
    snap,        \* per path, its status when the last run was killed
    started,     \* paths download_file was called for in the current run
    killed,      \* some run was killed
    last,        \* the last direct call of a store operation and its result
    gaveup,      \* paths marked failed after their retry loop ran out of attempts
    conn,        \* per thread, the open transaction of its database connection
    session,     \* the row of the run in the sessions table, and the workers' own counters
    gates        \* the locks, the clock and the two elapsed-time gates

vars == <<downloads, sites, stats, localSize, remote, behav, orch, queues,
          threads, runs, snap, started, killed, last, gaveup, conn, session, gates>>

ThreadIds == 1 .. MaxThreads

\* a connection with no open transaction
ClosedConn == [pc |-> "closed", path |-> "-", status |-> "-", bytes |-> NULL,
               dl |-> {}, st |-> <<>>]
NoConn == [t \in ThreadIds |-> ClosedConn]

\* a worker updates the session every SESSION_EVERY files it has processed
SESSION_EVERY == 2

ZeroCount == [files_processed |-> 0, files_downloaded |-> 0]

\* the sessions table is outside the state of a specification that starts
\* with SessionOff (modelled = FALSE); with SessionOn it holds the row of the
\* run (id NULL: no row yet), local holds the counters each worker thread
\* keeps in its own variables, and total counts the files processed and
\* downloaded by all the workers of the run
SessionOff == [modelled |-> FALSE, id |-> NULL, end_time |-> NULL,
               files_processed |-> 0, files_downloaded |-> 0,
               local |-> [t \in ThreadIds |-> ZeroCount], total |-> ZeroCount]
SessionOn == [SessionOff EXCEPT !.modelled = TRUE]

\* INSERT INTO sessions DEFAULT VALUES
create_session(s, id) ==
    IF ~s.modelled THEN s
    ELSE [s EXCEPT !.id = id, !.end_time = NULL, !.files_processed = 0,
                   !.files_downloaded = 0, !.total = ZeroCount]

\* UPDATE sessions SET files_processed = ?, files_downloaded = ? WHERE id = ?
update_session(s, files_processed, files_downloaded) ==
    IF ~s.modelled \/ s.id = NULL THEN s
    ELSE [s EXCEPT !.files_processed = files_processed,
                   !.files_downloaded = files_downloaded]

\* UPDATE sessions SET end_time = ? WHERE id = ?
update_session_end_time(s) ==
    IF ~s.modelled \/ s.id = NULL THEN s ELSE [s EXCEPT !.end_time = 1]

\* worker: the counters of new threads start at 0
worker_started(s, new) ==
    IF ~s.modelled THEN s
    ELSE [s EXCEPT !.local = [t \in ThreadIds |-> IF t \in new THEN ZeroCount ELSE @[t]]]

\* worker: a job was processed (downloaded: download_file returned True);
\* every SESSION_EVERY files the thread writes its counters to the session
worker_processed(s, t, downloaded) ==
    IF ~s.modelled THEN s
    ELSE LET d == IF downloaded THEN 1 ELSE 0
             fp == s.local[t].files_processed + 1
             fd == s.local[t].files_downloaded + d
             counted == [s EXCEPT !.local[t] = [files_processed |-> fp, files_downloaded |-> fd],
                                  !.total.files_processed = @ + 1,
                                  !.total.files_downloaded = @ + d]
         IN  IF fp % SESSION_EVERY = 0 THEN update_session(counted, fp, fd) ELSE counted

\* worker: the final update after the loop
worker_finished(s, t) ==
    update_session(s, s.local[t].files_processed, s.local[t].files_downloaded)

(***************************************************************************)
(* The locks and the elapsed-time gates: file_counter_lock,                *)
(* token_refresh_lock, db_backup_lock and account_lock, as they are taken  *)
(* by download_file, refresh_token_if_needed, backup_database and main     *)
(***************************************************************************)
MAIN == 0
Callers == {MAIN} \cup ThreadIds
LockNames == {"file_counter_lock", "token_refresh_lock", "db_backup_lock", "account_lock"}

\* the clock runs from 0 to MaxClock; the intervals and the period of the
\* file counter are scaled to it
MaxClock == 3
TokenInterval == 1
BackupInterval == 1
GATE_EVERY == 2

\* (now - last_token_refresh).total_seconds() > config['TOKEN_REFRESH_INTERVAL']
M_token_refresh_due_always(now, last_refresh) == TRUE

token_refresh_due(now, last_refresh) == now - last_refresh > TokenInterval

\* (now - last_db_backup).total_seconds() > config['DB_BACKUP_INTERVAL']
db_backup_due(now, last_backup) == now - last_backup > BackupInterval

\* entry and exit of "with lock:"
lock_acquire(lock, l, c) == [lock EXCEPT ![l] = c]

M_lock_release_keeps(lock, l) == lock

lock_release(lock, l) == [lock EXCEPT ![l] = NULL]

\* the gates are outside the state of a specification that starts with
\* GateOff; pc is the position of each caller, via the path by which it came
\* to refresh_token_if_needed, taken the value of now it read under the
\* lock; global_account tells which code stored the account ("None": no
\* account yet); ok_at and bk_at are the readings of the clock under which the last
\* successful refresh and the last successful backup were made
GateOff == [now |-> 0, last_token_refresh |-> 0, last_db_backup |-> 0,
            ok_at |-> NULL, bk_at |-> NULL, file_counter |-> 0, global_account |-> "None",
            lock |-> [l \in LockNames |-> NULL],
            pc |-> [c \in Callers |-> "idle"],
            via |-> [c \in Callers |-> "-"],
            taken |-> [c \in Callers |-> 0]]

GateRest == <<downloads, sites, stats, localSize, remote, behav, orch, queues, threads,
              runs, snap, started, killed, last, gaveup, conn, session>>

\* time passes
Tick ==
    /\ gates.now < MaxClock
    /\ gates' = [gates EXCEPT !.now = @ + 1]
    /\ UNCHANGED GateRest

\* a caller comes to a "with lock:" and waits for it
GateWant(c, l, via) ==
    /\ gates.pc[c] = "idle"
    /\ \/ c # MAIN /\ l = "file_counter_lock" /\ via = "download_file"
       \/ c # MAIN /\ l = "token_refresh_lock" /\ via = "IndexError"
       \/ c = MAIN /\ l = "account_lock" /\ via = "main"
    /\ gates' = [gates EXCEPT !.pc[c] = "want_" \o l, !.via[c] = via]
    /\ UNCHANGED GateRest

\* download_file: with file_counter_lock: file_counter += 1; every
\* GATE_EVERY files the two gates are called under the lock
FileCounterEnter(c) ==
    /\ gates.pc[c] = "want_file_counter_lock"
    /\ gates.lock["file_counter_lock"] = NULL
    /\ LET n == (gates.file_counter + 1) % GATE_EVERY
       IN  gates' = [gates EXCEPT !.lock = lock_acquire(@, "file_counter_lock", c),
                                  !.file_counter = n,
                                  !.pc[c] = IF n = 0 THEN "want_token_refresh_lock"
                                            ELSE "file_counter_exit"]
    /\ UNCHANGED GateRest

FileCounterExit(c) ==
    /\ gates.pc[c] = "file_counter_exit"
    /\ gates' = [gates EXCEPT !.lock = lock_release(@, "file_counter_lock"),
                              !.pc[c] = "idle", !.via[c] = "-"]
    /\ UNCHANGED GateRest

\* refresh_token_if_needed: with token_refresh_lock: now = datetime.now(),
\* and the test of the elapsed time
TokenEnter(c) ==
    /\ gates.pc[c] = "want_token_refresh_lock"
    /\ gates.lock["token_refresh_lock"] = NULL
    /\ gates' = [gates EXCEPT !.lock = lock_acquire(@, "token_refresh_lock", c),
                              !.taken[c] = gates.now,
                              !.pc[c] = IF token_refresh_due(gates.now, gates.last_token_refresh)
                                        THEN "refreshing" ELSE "token_exit"]
    /\ UNCHANGED GateRest

\* the refresh: "ok" (refresh_token returned, last_token_refresh = now),
\* "unavailable" (no account: a warning), "None" (refresh_token
\* raised and authenticate returned None) or "account" (it raised and
\* authenticate returned an account, which is stored under account_lock)
TokenRefresh(c, result) ==
    /\ gates.pc[c] = "refreshing"
    /\ result = "unavailable" <=> gates.global_account = "None"
    /\ gates' = CASE result = "ok" ->
                      [gates EXCEPT !.last_token_refresh = gates.taken[c],
                                    !.ok_at = gates.taken[c],
                                    !.pc[c] = "token_exit"]
                 [] result = "account" ->
                      [gates EXCEPT !.pc[c] = "want_account_lock"]
                 [] OTHER ->
                      [gates EXCEPT !.pc[c] = "token_exit"]
    /\ UNCHANGED GateRest

\* with account_lock: global_account = ...
AccountEnter(c) ==
    /\ gates.pc[c] = "want_account_lock"
    /\ gates.lock["account_lock"] = NULL
    /\ gates' = [gates EXCEPT !.lock = lock_acquire(@, "account_lock", c),
                              !.global_account = IF c = MAIN THEN "main"
                                                 ELSE "refresh_token_if_needed",
                              !.pc[c] = "account_exit"]
    /\ UNCHANGED GateRest

\* the exit of "with account_lock"; in refresh_token_if_needed it is
\* followed by last_token_refresh = now
AccountExit(c) ==
    /\ gates.pc[c] = "account_exit"
    /\ gates' = IF c = MAIN
                THEN [gates EXCEPT !.lock = lock_release(@, "account_lock"),
                                   !.pc[c] = "idle", !.via[c] = "-"]
                ELSE [gates EXCEPT !.lock = lock_release(@, "account_lock"),
                                   !.last_token_refresh = gates.taken[c],
                                   !.ok_at = gates.taken[c],
                                   !.pc[c] = "token_exit"]
    /\ UNCHANGED GateRest

\* the exit of "with token_refresh_lock"; download_file goes on to
\* backup_database, the retry loop goes on
TokenExit(c) ==
    /\ gates.pc[c] = "token_exit"
    /\ gates' = IF gates.via[c] = "download_file"
                THEN [gates EXCEPT !.lock = lock_release(@, "token_refresh_lock"),
                                   !.pc[c] = "want_db_backup_lock"]
                ELSE [gates EXCEPT !.lock = lock_release(@, "token_refresh_lock"),
                                   !.pc[c] = "idle", !.via[c] = "-"]
    /\ UNCHANGED GateRest

\* backup_database: with db_backup_lock: now = datetime.now(), and the test
\* of the elapsed time
BackupEnter(c) ==
    /\ gates.pc[c] = "want_db_backup_lock"
    /\ gates.lock["db_backup_lock"] = NULL
    /\ gates' = [gates EXCEPT !.lock = lock_acquire(@, "db_backup_lock", c),
                              !.taken[c] = gates.now,
                              !.pc[c] = IF db_backup_due(gates.now, gates.last_db_backup)
                                        THEN "backing_up" ELSE "backup_exit"]
    /\ UNCHANGED GateRest

\* the copy of the database: done (last_db_backup = now), or an exception
\* that is logged
BackupCopy(c, done) ==
    /\ gates.pc[c] = "backing_up"
    /\ gates' = IF done
                THEN [gates EXCEPT !.last_db_backup = gates.taken[c],
                                   !.bk_at = gates.taken[c],
                                   !.pc[c] = "backup_exit"]
                ELSE [gates EXCEPT !.pc[c] = "backup_exit"]
    /\ UNCHANGED GateRest

BackupExit(c) ==
    /\ gates.pc[c] = "backup_exit"
    /\ gates' = [gates EXCEPT !.lock = lock_release(@, "db_backup_lock"),
                              !.pc[c] = "file_counter_exit"]
    /\ UNCHANGED GateRest

GateNext ==
    \/ Tick
    \/ \E c \in Callers, l \in LockNames, via \in {"download_file", "IndexError", "main"} :
          GateWant(c, l, via)
    \/ \E c \in Callers : FileCounterEnter(c)
    \/ \E c \in Callers : FileCounterExit(c)
    \/ \E c \in Callers : TokenEnter(c)
    \/ \E c \in Callers, result \in {"ok", "unavailable", "None", "account"} :
          TokenRefresh(c, result)
    \/ \E c \in Callers : AccountEnter(c)
    \/ \E c \in Callers : AccountExit(c)
    \/ \E c \in Callers : TokenExit(c)
    \/ \E c \in Callers : BackupEnter(c)
    \/ \E c \in Callers, done \in BOOLEAN : BackupCopy(c, done)
    \/ \E c \in Callers : BackupExit(c)

DeadThread == [pc |-> "dead", q |-> 0, path |-> "-", attempt |-> 0, tw |-> 0]
IdleOrch == [pc |-> "idle", idx |-> 0, site_status |-> "-", has_failed |-> FALSE,
             libs |-> <<>>, lidx |-> 0, widx |-> 0, threads |-> {}]
NoSnap == [p \in Paths |-> "-"]
NoCall == [op |-> "none", path |-> "-", site |-> "-", lib |-> "-", bytes |-> NULL,
           existed |-> FALSE, ret |-> "-", count |-> NULL]

\* authenticate() returned None; p is the file of the worker that called it
\* through refresh_token_if_needed, "-" when main called it
AuthFailure(p) == [NoCall EXCEPT !.op = "authenticate", !.ret = "None", !.path = p]

\* the thread is between the entry of download_file and its return
InCycle(t) == threads[t].pc \in {"begin", "attempt", "exhausted"}

StatusOf(tbl, p) == get_file_status(tbl, p).status
AttemptsOf(tbl, p) == get_file_status(tbl, p).attempt_count

(***************************************************************************)
(* Remote content and download behaviour of the specifications             *)
(***************************************************************************)
\* one site, two libraries of one file each
RemoteTwoLibs ==
    [sites |-> <<"s1">>,
     libs  |-> [s \in Sites |-> IF s = "s1" THEN <<"L1", "L2">> ELSE <<>>],
     files |-> [l \in Libraries |-> IF l = "L1" THEN <<"A">>
                                    ELSE IF l = "L2" THEN <<"B">> ELSE <<>>],
     size  |-> [p \in Paths |-> IF p = "B" THEN 2 * MB ELSE MB]]

\* one site, one library of two files
RemoteOneLib ==
    [sites |-> <<"s1">>,
     libs  |-> [s \in Sites |-> IF s = "s1" THEN <<"L1">> ELSE <<>>],
     files |-> [l \in Libraries |-> IF l = "L1" THEN <<"A", "B">> ELSE <<>>],
     size  |-> [p \in Paths |-> IF p = "B" THEN 2 * MB ELSE MB]]

\* one site, one library of three files
RemoteEngineering ==
    [sites |-> <<"s1">>,
     libs  |-> [s \in Sites |-> IF s = "s1" THEN <<"L1">> ELSE <<>>],
     files |-> [l \in Libraries |-> IF l = "L1" THEN <<"A", "B", "C">> ELSE <<>>],
     size  |-> [p \in Paths |-> MB]]

Failures == {"false", "IndexError", "Exception"}
\* what one invocation of file_item.download may do, on attempt number
\* attempt (0-based) of a cycle
Outcomes(p, attempt) ==
    CASE behav[p] = "ok"      -> {"ok"}
      [] behav[p] = "fail2"   -> IF attempt < 2 THEN Failures ELSE {"ok"}
      [] behav[p] = "failall" -> Failures
      [] OTHER                -> Failures \cup {"ok"}

CurSite == remote.sites[orch.idx]
CurLib == orch.libs[orch.lidx]

(***************************************************************************)
(* The main thread: main and backup_sharepoint_site                        *)
(***************************************************************************)
\* main up to the site loop: init_database keeps existing rows, the
\* volatile state of the new process is fresh, create_session inserts the
\* row of the run; startup "output_path" (verify_output_path fails),
\* "authenticate" (authenticate returns None) and "no_sites" (the CSV has no
\* site) are the returns of main before the loop
StartRun(startup) ==
    /\ orch.pc = "idle"
    /\ runs < MaxRuns
    /\ runs' = runs + 1
    /\ orch' = IF startup = "ok" THEN [IdleOrch EXCEPT !.pc = "site", !.idx = 1] ELSE IdleOrch
    /\ queues' = [i \in DOMAIN remote.sites |-> <<>>]
    /\ started' = {}
    /\ session' = create_session(session, runs + 1)
    /\ UNCHANGED <<downloads, sites, stats, localSize, remote, behav, threads, snap,
                   killed, last, gaveup, conn, gates>>

\* backup_sharepoint_site: get_site_status, the early return for a complete
\* site, and should_retry_failed_files
SiteCheck ==
    /\ orch.pc = "site"
    /\ LET res == get_site_status_result(sites, downloads, CurSite)
       IN  /\ sites' = get_site_status_write(sites, downloads, CurSite)
           /\ IF ~res.needs
              THEN /\ orch' = [orch EXCEPT !.pc = "next"]
                   /\ UNCHANGED downloads
              ELSE /\ downloads' = should_retry_failed_files(downloads, CurSite)
                   /\ orch' = [orch EXCEPT !.pc = "start",
                                           !.site_status = res.site_status,
                                           !.has_failed = failed_files_to_retry(downloads, CurSite) # {}]
    /\ UNCHANGED <<stats, localSize, remote, behav, queues, threads, runs, snap, started,
                   killed, last, gaveup, conn, session, gates>>

\* WHERE site_name = ? AND library_name = ? AND status != 'completed'
incomplete_count(tbl, s, l) ==
    Cardinality({r \in tbl : r.site = s /\ r.lib = l /\ r.st # "completed"})

\* the library filter: libraries_to_process
library_needs_processing(tbl, s, l, site_status) ==
    incomplete_count(tbl, s, l) > 0 \/ site_status = "new"

libraries_to_process(tbl, s, site_status) ==
    LET keep(l) == library_needs_processing(tbl, s, l, site_status)
    IN  SelectSeq(remote.libs[s], keep)

\* backup_sharepoint_site from mark_site_started to the creation of the
\* queue; connect is what sharepoint.get_site does: "ok", "none" (no site
\* object: return False) or "raise" (the except branch)
SiteStart(connect) ==
    /\ orch.pc = "start"
    /\ LET marked == mark_site_started(sites, CurSite)
           ltp == libraries_to_process(downloads, CurSite, orch.site_status)
       IN  CASE connect = "none" ->
                  /\ sites' = marked
                  /\ orch' = [orch EXCEPT !.pc = "next"]
             [] connect = "raise" ->
                  /\ sites' = update_site_status(marked, downloads, CurSite)
                  /\ orch' = [orch EXCEPT !.pc = "next"]
             [] OTHER ->
                  IF remote.libs[CurSite] = <<>> \/ (ltp = <<>> /\ ~orch.has_failed)
                  THEN /\ sites' = update_site_status(marked, downloads, CurSite)
                       /\ orch' = [orch EXCEPT !.pc = "next"]
                  ELSE /\ sites' = marked
                       /\ orch' = [orch EXCEPT !.pc = "lib", !.libs = ltp, !.lidx = 1]
    /\ UNCHANGED <<downloads, stats, localSize, remote, behav, queues, threads, runs,
                   snap, started, killed, last, gaveup, conn, session, gates>>

\* the NUM_THREADS lowest free thread slots
FreeSlots == {t \in ThreadIds : threads[t].pc = "dead"}
NewThreads ==
    {t \in FreeSlots : Cardinality({u \in FreeSlots : u < t}) < NUM_THREADS}

\* start of a library pass: the worker threads are created and started
LibStart ==
    /\ orch.pc = "lib"
    /\ orch.lidx <= Len(orch.libs)
    /\ Cardinality(FreeSlots) >= NUM_THREADS
    /\ threads' = [t \in ThreadIds |->
                     IF t \in NewThreads THEN [DeadThread EXCEPT !.pc = "get", !.q = orch.idx]
                     ELSE threads[t]]
    /\ orch' = [orch EXCEPT !.pc = "walk", !.widx = 1, !.threads = NewThreads]
    /\ session' = worker_started(session, NewThreads)
    /\ UNCHANGED <<downloads, sites, stats, localSize, remote, behav, queues, runs,
                   snap, started, killed, last, gaveup, conn, gates>>

\* the walker's test before it records and enqueues a file
M_walker_enqueues_always(status) == TRUE

walker_enqueues(status) == status # "completed"

\* one item of root_folder.get_items(): get_file_status, and for a file
\* that is not completed record_file_discovery and download_queue.put;
\* record_error: record_file_discovery raises, which is logged, and the file
\* is put in the queue all the same
Walk(record_error) ==
    /\ orch.pc = "walk"
    /\ orch.widx <= Len(remote.files[CurLib])
    /\ LET f == remote.files[CurLib][orch.widx]
       IN  /\ record_error => walker_enqueues(StatusOf(downloads, f))
           /\ IF walker_enqueues(StatusOf(downloads, f))
              THEN /\ downloads' = IF record_error THEN downloads
                                   ELSE record_file_discovery(downloads, f, CurSite, CurLib,
                                                              remote.size[f])
                   /\ queues' = [queues EXCEPT ![orch.idx] = Append(@, f)]
              ELSE UNCHANGED <<downloads, queues>>
    /\ orch' = [orch EXCEPT !.widx = @ + 1]
    /\ UNCHANGED <<sites, stats, localSize, remote, behav, threads, runs, snap, started,
                   killed, last, gaveup, conn, session, gates>>

\* the scan is over and "while not download_queue.empty()" ends
WaitQueue ==
    /\ orch.pc = "walk"
    /\ orch.widx > Len(remote.files[CurLib])
    /\ queues[orch.idx] = <<>>
    /\ orch' = [orch EXCEPT !.pc = "poll"]
    /\ UNCHANGED <<downloads, sites, stats, localSize, remote, behav, queues, threads,
                   runs, snap, started, killed, last, gaveup, conn, session, gates>>

\* COUNT(*) WHERE status='downloading' AND site_name=? AND library_name=?
downloading_count(tbl, s, l) ==
    Cardinality({r \in tbl : r.st = "downloading" /\ r.site = s /\ r.lib = l})

\* the poll for zero active downloads ends, by a zero count or (timeout) by
\* its 60 second bound; then one sentinel per worker is enqueued
PollDone(timeout) ==
    /\ orch.pc = "poll"
    /\ timeout <=> downloading_count(downloads, CurSite, CurLib) > 0
    /\ queues' = [queues EXCEPT ![orch.idx] = @ \o [i \in 1 .. NUM_THREADS |-> SENTINEL]]
    /\ orch' = [orch EXCEPT !.pc = "join"]
    /\ UNCHANGED <<downloads, sites, stats, localSize, remote, behav, threads, runs,
                   snap, started, killed, last, gaveup, conn, session, gates>>

\* t.join(timeout=10) for every thread of the pass: all have stopped, or
\* (timeout) some thread is still alive and is left running
JoinAll(timeout) ==
    /\ orch.pc = "join"
    /\ timeout <=> (\E t \in orch.threads : threads[t].pc # "dead")
    /\ orch' = [orch EXCEPT !.pc = "lib", !.lidx = @ + 1, !.widx = 0, !.threads = {}]
    /\ UNCHANGED <<downloads, sites, stats, localSize, remote, behav, queues, threads,
                   runs, snap, started, killed, last, gaveup, conn, session, gates>>

\* after the last library: update_site_status and return
SiteFinal ==
    /\ orch.pc = "lib"
    /\ orch.lidx > Len(orch.libs)
    /\ sites' = update_site_status(sites, downloads, CurSite)
    /\ orch' = [orch EXCEPT !.pc = "next"]
    /\ UNCHANGED <<downloads, stats, localSize, remote, behav, queues, threads, runs,
                   snap, started, killed, last, gaveup, conn, session, gates>>

\* main's loop goes to the next site, or is left (after the last site, or
\* by break): main returns, the interpreter exits and its daemon threads
\* stop where they are
LoopContinue ==
    IF orch.idx < Len(remote.sites)
    THEN /\ orch' = [IdleOrch EXCEPT !.pc = "site", !.idx = orch.idx + 1]
         /\ UNCHANGED <<queues, threads>>
         /\ UNCHANGED session
    ELSE /\ orch' = IdleOrch
         /\ queues' = [i \in DOMAIN remote.sites |-> <<>>]
         /\ threads' = [t \in ThreadIds |-> DeadThread]
         /\ session' = update_session_end_time(session)

LoopBreak ==
    /\ orch' = IdleOrch
    /\ queues' = [i \in DOMAIN remote.sites |-> <<>>]
    /\ threads' = [t \in ThreadIds |-> DeadThread]
    /\ session' = update_session_end_time(session)

\* backup_sharepoint_site has returned: after every REAUTH_EVERY-th site
\* main calls authenticate (reauth: "account" or "None", else "skip"); on
\* None it logs "Re-authentication failed. Stopping." and breaks
NextSite(reauth) ==
    /\ orch.pc = "next"
    /\ reauth = "skip" <=> orch.idx % REAUTH_EVERY # 0
    /\ IF reauth = "None"
       THEN LoopBreak /\ last' = AuthFailure("-")
       ELSE LoopContinue /\ UNCHANGED last
    /\ UNCHANGED <<downloads, sites, stats, localSize, remote, behav, runs, snap, started,
                   killed, gaveup, conn, gates>>

\* where the per-library except branch leaves the loop: "continue" with
\* the next library; the threads of the pass get no sentinel and no join
M_after_library_error_leaves_site(o) == [o EXCEPT !.pc = "next", !.widx = 0, !.threads = {}]

after_library_error(o) == [o EXCEPT !.pc = "lib", !.lidx = @ + 1, !.widx = 0, !.threads = {}]

\* an exception inside the try of the library loop: before the threads are
\* started (os.makedirs), during the scan, or during the wait
LibRaise ==
    /\ \/ orch.pc = "lib" /\ orch.lidx <= Len(orch.libs)
       \/ orch.pc \in {"walk", "poll"}
    /\ orch' = after_library_error(orch)
    /\ last' = [NoCall EXCEPT !.op = "library_error", !.site = CurSite, !.lib = CurLib]
    /\ UNCHANGED <<downloads, sites, stats, localSize, remote, behav, queues, threads,
                   runs, snap, started, killed, gaveup, conn, session, gates>>

\* an exception of backup_sharepoint_site outside its try: get_site_status
\* raises, or should_retry_failed_files raises after get_site_status has
\* returned; main's except branch logs it and continues with the next site
SiteCheckRaise(at) ==
    /\ orch.pc = "site"
    /\ IF at = "get_site_status"
       THEN UNCHANGED sites
       ELSE /\ get_site_status_result(sites, downloads, CurSite).needs
            /\ sites' = get_site_status_write(sites, downloads, CurSite)
    /\ LoopContinue
    /\ last' = [NoCall EXCEPT !.op = "site_error", !.site = CurSite]
    /\ UNCHANGED <<downloads, stats, localSize, remote, behav, runs, snap, started,
                   killed, gaveup, conn, gates>>

\* the process is killed: the store and the local files stay, every thread
\* and the queue are gone
Crash ==
    /\ orch.pc # "idle"
    /\ orch' = IdleOrch
    /\ queues' = [i \in DOMAIN remote.sites |-> <<>>]
    /\ threads' = [t \in ThreadIds |-> DeadThread]
    /\ killed' = TRUE
    /\ snap' = [p \in Paths |-> StatusOf(downloads, p)]
    /\ UNCHANGED <<downloads, sites, stats, localSize, remote, behav, runs, started, last, gaveup, conn, session, gates>>

\* a run of main with --reset-site s, between two backup runs
ResetSite(s) ==
    /\ orch.pc = "idle"
    /\ sites' = reset_site_sites(sites, s)
    /\ downloads' = reset_site_downloads(downloads, s)
    /\ gaveup' = gaveup \ {r.path : r \in {x \in downloads : x.site = s}}
    /\ UNCHANGED <<stats, localSize, remote, behav, orch, queues, threads, runs, snap,
                   started, killed, last, conn, session, gates>>

(***************************************************************************)
(* The worker threads: worker and download_file                            *)
(***************************************************************************)
\* the worker's test of a dequeued file: skip it, or call download_file
M_worker_skips_downloading(status, attempt_count) ==
    \/ status = "completed"
    \/ status = "downloading"
    \/ (status = "failed" /\ attempt_count >= MAX_RETRY)

M_worker_skips_completed_only(status, attempt_count) == status = "completed"

worker_skips(status, attempt_count) ==
    \/ status = "completed"
    \/ (status = "failed" /\ attempt_count >= MAX_RETRY)

\* q.get returns a job: the poison pill ends the thread; a file is
\* skipped, or download_file is called for it
WorkerGet(t) ==
    /\ threads[t].pc = "get"
    /\ queues[threads[t].q] # <<>>
    /\ LET job == Head(queues[threads[t].q])
           fs == get_file_status(downloads, job)
       IN  /\ queues' = [queues EXCEPT ![threads[t].q] = Tail(@)]
           /\ threads' = [threads EXCEPT ![t] =
                  IF job = SENTINEL THEN DeadThread
                  ELSE IF worker_skips(fs.status, fs.attempt_count) THEN @
                  ELSE [@ EXCEPT !.pc = "begin", !.path = job, !.attempt = 0, !.tw = 0]]
           /\ started' = IF job = SENTINEL \/ worker_skips(fs.status, fs.attempt_count)
                         THEN started ELSE started \cup {job}
           /\ session' = IF job = SENTINEL THEN worker_finished(session, t)
                         ELSE IF worker_skips(fs.status, fs.attempt_count)
                         THEN worker_processed(session, t, FALSE)
                         ELSE session
    /\ UNCHANGED <<downloads, sites, stats, localSize, remote, behav, orch, runs, snap,
                   killed, last, gaveup, conn, gates>>

\* q.get times out on an empty queue: the thread exits if no row of the
\* downloads table is 'downloading'
active_downloads(tbl) == Cardinality({r \in tbl : r.st = "downloading"})

WorkerTimeout(t) ==
    /\ threads[t].pc = "get"
    /\ queues[threads[t].q] = <<>>
    /\ threads' = [threads EXCEPT ![t] = IF active_downloads(downloads) = 0 THEN DeadThread ELSE @]
    /\ session' = IF active_downloads(downloads) = 0 THEN worker_finished(session, t)
                  ELSE session
    /\ UNCHANGED <<downloads, sites, stats, localSize, remote, behav, orch, queues, runs,
                   snap, started, killed, last, gaveup, conn, gates>>

\* the size comparison of download_file against an existing local file
size_matches(local_size, remote_size) ==
    local_size # NULL /\ Truthy(remote_size) /\ local_size = remote_size

\* download_file from its entry to its retry loop: os.makedirs (mkdir_error: it raises,
\* the outer except marks the file failed), the skip of a file that exists
\* with the remote size, and the mark as 'downloading'
WorkerBegin(t, mkdir_error) ==
    /\ threads[t].pc = "begin"
    /\ LET p == threads[t].path
           failed == update_download_status(downloads, stats, p, "failed", NULL)
           skipped == update_download_status(downloads, stats, p, "completed", localSize[p])
       IN  IF mkdir_error
           THEN /\ downloads' = failed.dl
                /\ stats' = failed.stats
                /\ threads' = [threads EXCEPT ![t] = [@ EXCEPT !.pc = "get", !.path = "-"]]
                /\ session' = worker_processed(session, t, FALSE)
           ELSE IF size_matches(localSize[p], remote.size[p])
           THEN /\ downloads' = skipped.dl
                /\ stats' = skipped.stats
                /\ threads' = [threads EXCEPT ![t] = [@ EXCEPT !.pc = "get", !.path = "-"]]
                /\ session' = worker_processed(session, t, TRUE)
           ELSE /\ downloads' = mark_downloading(downloads, p)
                /\ stats' = stats
                /\ threads' = [threads EXCEPT ![t] = [@ EXCEPT !.pc = "attempt"]]
                /\ UNCHANGED session
    /\ UNCHANGED <<sites, localSize, remote, behav, orch, queues, runs, snap, started,
                   killed, last, gaveup, conn, gates>>

\* whether the retry loop runs again after a failed attempt (0-based)
has_next_attempt(attempt) == attempt < MAX_RETRY - 1

\* one pass of the retry loop: file_item.download and the handling of its
\* result; the backoff sleep of a failed attempt that is not the last is
\* part of the step, as is refresh_token_if_needed after an IndexError
\* (gate "None": the refresh raised and authenticate returned None, which
\* refresh_token_if_needed ignores; "skip": no refresh was due, or the
\* refresh or the re-authentication succeeded)
WorkerAttemptBody(t, outcome, gate) ==
    /\ threads[t].pc = "attempt"
    /\ outcome \in Outcomes(threads[t].path, threads[t].attempt)
    /\ gate = "None" => (outcome = "IndexError" /\ has_next_attempt(threads[t].attempt))
    /\ LET p == threads[t].path
           done == update_download_status(downloads, stats, p, "completed", remote.size[p])
           failed == update_download_status(downloads, stats, p, "failed", NULL)
       IN  CASE outcome = "ok" ->
                  /\ localSize' = [localSize EXCEPT ![p] = remote.size[p]]
                  /\ downloads' = done.dl
                  /\ stats' = done.stats
                  /\ UNCHANGED <<gaveup, conn>>
                  /\ session' = worker_processed(session, t, TRUE)
                  /\ threads' = [threads EXCEPT ![t] =
                                   [@ EXCEPT !.pc = "get", !.path = "-", !.attempt = 0]]
             [] outcome # "ok" /\ has_next_attempt(threads[t].attempt) ->
                  /\ threads' = [threads EXCEPT ![t].attempt = @ + 1]
                  /\ UNCHANGED <<localSize, downloads, stats, gaveup, conn, session, gates>>
             [] outcome = "false" /\ ~has_next_attempt(threads[t].attempt) ->
                  /\ threads' = [threads EXCEPT ![t].pc = "exhausted"]
                  /\ UNCHANGED <<localSize, downloads, stats, gaveup, conn, session, gates>>
             [] OTHER ->
                  /\ downloads' = failed.dl
                  /\ stats' = failed.stats
                  /\ threads' = [threads EXCEPT ![t] = [@ EXCEPT !.pc = "exhausted", !.tw = 1]]
                  /\ gaveup' = gaveup \cup {p}
                  /\ UNCHANGED <<localSize, conn, session, gates>>
    /\ UNCHANGED <<sites, remote, behav, orch, queues, runs, snap, started, killed, gates>>

WorkerAttempt(t, outcome, gate) ==
    /\ WorkerAttemptBody(t, outcome, gate)
    /\ last' = IF gate = "None" THEN AuthFailure(threads[t].path) ELSE last

\* the time.sleep of a failed attempt (0-based) that is not the last
API_RETRY_DELAY == 30
EXCEPTION_RETRY_DELAY == 2

retry_delay(outcome, attempt) ==
    IF outcome \in {"false", "IndexError"} THEN API_RETRY_DELAY * (attempt + 1)
    ELSE EXCEPTION_RETRY_DELAY * (attempt + 1)

\* the same pass of the retry loop, with its call of time.sleep recorded in
\* last (count: the seconds, ret: the kind of failure; no call, no record)
WorkerAttemptSleep(t, outcome) ==
    /\ WorkerAttemptBody(t, outcome, "skip")
    /\ last' = IF outcome # "ok" /\ has_next_attempt(threads[t].attempt)
               THEN [NoCall EXCEPT !.op = "time.sleep", !.path = threads[t].path,
                                   !.ret = outcome,
                                   !.count = retry_delay(outcome, threads[t].attempt)]
               ELSE NoCall

\* after the loop: "All retries failed", the file is marked failed and
\* download_file returns False
WorkerExhausted(t) ==
    /\ threads[t].pc = "exhausted"
    /\ LET failed == update_download_status(downloads, stats, threads[t].path, "failed", NULL)
       IN  /\ downloads' = failed.dl
           /\ stats' = failed.stats
    /\ gaveup' = gaveup \cup {threads[t].path}
    /\ threads' = [threads EXCEPT ![t] =
                     [@ EXCEPT !.pc = "get", !.path = "-", !.attempt = 0, !.tw = 0]]
    /\ session' = worker_processed(session, t, FALSE)
    /\ UNCHANGED <<sites, localSize, remote, behav, orch, queues, runs, snap, started,
                   killed, last, conn, gates>>

Worker(t) ==
    \/ WorkerGet(t)
    \/ WorkerTimeout(t)
    \/ \E mkdir_error \in BOOLEAN : WorkerBegin(t, mkdir_error)
    \/ \E outcome \in Failures \cup {"ok"} : WorkerAttempt(t, outcome, "skip")
    \/ WorkerExhausted(t)

(***************************************************************************)
(* Specification of the engine: runs of main over one site with one or two *)
(* libraries, any download outcome, any timeout, kills, restarts and site   *)
(* resets between the runs                                                 *)
(***************************************************************************)
Init ==
    /\ downloads = {}
    /\ sites = [s \in Sites |-> NoSite]
    /\ stats = InitStats
    /\ localSize \in {[p \in Paths |-> NULL],
                      [p \in Paths |-> IF p = "B" THEN 2 * MB ELSE NULL]}
    /\ remote \in {RemoteOneLib, RemoteTwoLibs}
    /\ behav = [p \in Paths |-> "any"]
    /\ orch = IdleOrch
    /\ queues = [i \in DOMAIN remote.sites |-> <<>>]
    /\ threads = [t \in ThreadIds |-> DeadThread]
    /\ runs = 0
    /\ snap = NoSnap
    /\ started = {}
    /\ killed = FALSE
    /\ last = NoCall
    /\ gaveup = {}
    /\ conn = NoConn
    /\ session = SessionOff
    /\ gates = GateOff

Orchestrator ==
    \/ StartRun("ok")
    \/ SiteCheck
    \/ \E connect \in {"ok", "none", "raise"} : SiteStart(connect)
    \/ LibStart
    \/ Walk(FALSE)
    \/ WaitQueue
    \/ \E timeout \in BOOLEAN : PollDone(timeout)
    \/ \E timeout \in BOOLEAN : JoinAll(timeout)
    \/ SiteFinal
    \/ \E reauth \in {"skip", "account", "None"} : NextSite(reauth)

Next ==
    \/ Orchestrator
    \/ \E t \in ThreadIds : Worker(t)
    \/ Crash
    \/ \E s \in Sites : ResetSite(s)

Spec == Init /\ [][Next]_vars

(***************************************************************************)
(* Specification of the store operations called directly: any table of     *)
(* rows the program can have written, then any calls                       *)
(***************************************************************************)
\* the rows a path can have in a table drawn by StoreInit
InitRows(p) ==
    {[path |-> p, site |-> s, lib |-> IF s = "s1" THEN "L1" ELSE "L3", size |-> z,
      st |-> st, att |-> a] :
        s \in Sites, z \in {NULL, 1}, st \in FileStatus, a \in 0 .. MaxInitAttempt}

\* no row for the path, or one of its rows
OptRow(p) == {{}} \cup {{r} : r \in InitRows(p)}

StoreInit ==
    /\ downloads \in {a \cup b : a \in OptRow("A"), b \in OptRow("B")}
    /\ sites \in {[s \in Sites |-> NoSite], mark_site_started([s \in Sites |-> NoSite], "s1")}
    /\ stats = InitStats
    /\ localSize = [p \in Paths |-> NULL]
    /\ remote = RemoteTwoLibs
    /\ behav = [p \in Paths |-> "any"]
    /\ orch = IdleOrch
    /\ queues = [i \in DOMAIN RemoteTwoLibs.sites |-> <<>>]
    /\ threads = [t \in ThreadIds |-> DeadThread]
    /\ runs = 0
    /\ snap = NoSnap
    /\ started = {}
    /\ killed = FALSE
    /\ last = NoCall
    /\ gaveup = {}
    /\ conn = NoConn
    /\ session = SessionOff
    /\ gates = GateOff

\* a call record_file_discovery(p, s, l, name, bytes)
RecordFileDiscoveryCall(p, s, l, bytes) ==
    /\ downloads' = record_file_discovery(downloads, p, s, l, bytes)
    /\ last' = [op |-> "record_file_discovery", path |-> p, site |-> s, lib |-> l,
                bytes |-> bytes, existed |-> HasRow(downloads, p),
                ret |-> record_file_discovery_result, count |-> NULL]
    /\ UNCHANGED <<sites, stats, localSize, remote, behav, orch, queues, threads, runs,
                   snap, started, killed, gaveup, conn, session, gates>>

\* a call update_site_status(s)
UpdateSiteStatusCall(s) ==
    /\ sites' = update_site_status(sites, downloads, s)
    /\ last' = [op |-> "update_site_status", path |-> "-", site |-> s, lib |-> "-",
                bytes |-> NULL, existed |-> sites[s].st # "absent",
                ret |-> site_status_of_counts(CountSite(downloads, s),
                                              SumSiteStatus(downloads, s, "completed"),
                                              SumSiteStatus(downloads, s, "failed")),
                count |-> NULL]
    /\ UNCHANGED <<downloads, stats, localSize, remote, behav, orch, queues, threads, runs,
                   snap, started, killed, gaveup, conn, session, gates>>

\* a run of main with --reset-site s; fresh: the database file is new, so
\* init_database has just created its tables and statistics rows
ResetSiteCall(s, fresh) ==
    /\ fresh => (downloads = {} /\ \A x \in Sites : sites[x].st = "absent")
    /\ sites' = reset_site_sites(sites, s)
    /\ downloads' = reset_site_downloads(downloads, s)
    /\ last' = [op |-> "reset_site", path |-> "-", site |-> s, lib |-> "-",
                bytes |-> NULL, existed |-> sites[s].st # "absent", ret |-> "-",
                count |-> reset_site_affected(sites, downloads, s, fresh)]
    /\ UNCHANGED <<stats, localSize, remote, behav, orch, queues, threads, runs,
                   snap, started, killed, gaveup, conn, session, gates>>

StoreNext ==
    \/ \E p \in {"A", "B"}, s \in Sites, bytes \in {NULL, 0, MB} :
          RecordFileDiscoveryCall(p, s, IF s = "s1" THEN "L1" ELSE "L3", bytes)
    \/ \E s \in Sites : UpdateSiteStatusCall(s)
    \/ \E s \in Sites, fresh \in BOOLEAN : ResetSiteCall(s, fresh)

SpecStore == StoreInit /\ [][StoreNext]_vars

(***************************************************************************)
(* Specification of the transaction of update_download_status: each thread *)
(* has its own connection (get_db); the first UPDATE opens a transaction   *)
(* that holds the database's write lock, the following UPDATEs work on the *)
(* connection's uncommitted copy, and the exit of the with block commits   *)
(* (an exception rolls back). downloads and stats are the committed        *)
(* database: what other connections read and what a kill leaves.           *)
(***************************************************************************)
MaxTxn == 2

\* the committed table after a statement: autocommit is off, so the work of
\* the connection is published when the with block is left
M_committed_after_autocommit(pc, work, old) == work

committed_after(pc, work, old) == IF pc = "closed" THEN work ELSE old

TxnInit ==
    /\ downloads \in {a \cup b : a \in OptRow("A"), b \in OptRow("B")}
    /\ sites = [s \in Sites |-> NoSite]
    /\ stats = InitStats
    /\ localSize = [p \in Paths |-> NULL]
    /\ remote = RemoteTwoLibs
    /\ behav = [p \in Paths |-> "any"]
    /\ orch = IdleOrch
    /\ queues = [i \in DOMAIN RemoteTwoLibs.sites |-> <<>>]
    /\ threads = [t \in ThreadIds |-> DeadThread]
    /\ runs = 0
    /\ snap = NoSnap
    /\ started = {}
    /\ killed = FALSE
    /\ last = NoCall
    /\ gaveup = {}
    /\ conn = NoConn
    /\ session = SessionOff
    /\ gates = GateOff

TxnRest == <<sites, localSize, remote, behav, orch, queues, threads, runs, snap,
             started, last, gaveup, session, gates>>

\* thread t calls update_download_status(p, status, file_size_bytes = bytes)
\* and executes its UPDATE downloads
TxnUpdateRow(t, p, status, bytes) ==
    /\ \A u \in ThreadIds : conn[u].pc = "closed"
    /\ stats.successful_downloads + stats.failed_downloads < MaxTxn
    /\ LET work == update_download_status(downloads, stats, p, status, bytes).dl
       IN  /\ conn' = [conn EXCEPT ![t] = [pc |-> "row", path |-> p, status |-> status,
                                           bytes |-> bytes, dl |-> work, st |-> stats]]
           /\ downloads' = committed_after("row", work, downloads)
    /\ UNCHANGED <<stats, killed>>
    /\ UNCHANGED TxnRest

\* the UPDATE statistics of successful_downloads or failed_downloads
TxnBumpCount(t) ==
    /\ conn[t].pc = "row"
    /\ LET c == conn[t]
           full == update_download_status(downloads, stats, c.path, c.status, c.bytes).stats
           work == [c.st EXCEPT !.successful_downloads = full.successful_downloads,
                                !.failed_downloads = full.failed_downloads]
       IN  /\ conn' = [conn EXCEPT ![t] = [c EXCEPT !.pc = "stat", !.st = work]]
           /\ stats' = committed_after("stat", work, stats)
           /\ downloads' = committed_after("stat", c.dl, downloads)
    /\ UNCHANGED killed
    /\ UNCHANGED TxnRest

\* if file_size_mb: the UPDATE statistics of mb_downloaded
TxnBumpMb(t) ==
    /\ conn[t].pc = "stat"
    /\ conn[t].status = "completed"
    /\ Truthy(IF Truthy(conn[t].bytes) THEN bytes_to_mb(conn[t].bytes) ELSE NULL)
    /\ LET c == conn[t]
           work == [c.st EXCEPT !.mb_downloaded = @ + bytes_to_mb(c.bytes)]
       IN  /\ conn' = [conn EXCEPT ![t] = [c EXCEPT !.pc = "mb", !.st = work]]
           /\ stats' = committed_after("mb", work, stats)
           /\ downloads' = committed_after("mb", c.dl, downloads)
    /\ UNCHANGED killed
    /\ UNCHANGED TxnRest

\* the with block is left: commit
TxnCommit(t) ==
    /\ \/ conn[t].pc = "mb"
       \/ /\ conn[t].pc = "stat"
          /\ ~(/\ conn[t].status = "completed"
               /\ Truthy(IF Truthy(conn[t].bytes) THEN bytes_to_mb(conn[t].bytes) ELSE NULL))
    /\ downloads' = committed_after("closed", conn[t].dl, downloads)
    /\ stats' = committed_after("closed", conn[t].st, stats)
    /\ conn' = [conn EXCEPT ![t] = ClosedConn]
    /\ UNCHANGED killed
    /\ UNCHANGED TxnRest

\* a statement raises inside the with block: rollback, the exception goes
\* to the caller
TxnRollback(t) ==
    /\ conn[t].pc \in {"row", "stat"}
    /\ conn' = [conn EXCEPT ![t] = ClosedConn]
    /\ UNCHANGED <<downloads, stats, killed>>
    /\ UNCHANGED TxnRest

\* the process is killed: open transactions are lost, the database file
\* keeps what was committed; the next run opens new connections
TxnKill ==
    /\ \E t \in ThreadIds : conn[t].pc # "closed"
    /\ conn' = NoConn
    /\ killed' = TRUE
    /\ UNCHANGED <<downloads, stats>>
    /\ UNCHANGED TxnRest

TxnNext ==
    \/ \E t \in ThreadIds, p \in {"A", "B"}, status \in {"completed", "failed"},
          bytes \in {NULL, 0, MB, 2 * MB} : TxnUpdateRow(t, p, status, bytes)
    \/ \E t \in ThreadIds : TxnBumpCount(t)
    \/ \E t \in ThreadIds : TxnBumpMb(t)
    \/ \E t \in ThreadIds : TxnCommit(t)
    \/ \E t \in ThreadIds : TxnRollback(t)
    \/ TxnKill

SpecTxn == TxnInit /\ [][TxnNext]_vars

(***************************************************************************)
(* Specification of a run with errors: one run of main over two sites,     *)
(* where the provider, the database and the authentication may fail, and   *)
(* monitor.py --query afterwards                                           *)
(***************************************************************************)
\* two sites: s2 with one library of one file, then s1 with two libraries
\* of one file each
RemoteTwoSites ==
    [sites |-> <<"s2", "s1">>,
     libs  |-> [s \in Sites |-> IF s = "s1" THEN <<"L1", "L2">> ELSE <<"L3">>],
     files |-> [l \in Libraries |-> IF l = "L1" THEN <<"A">>
                                    ELSE IF l = "L2" THEN <<"B">> ELSE <<"C">>],
     size  |-> [p \in Paths |-> IF p = "B" THEN 2 * MB ELSE MB]]

RECURSIVE SumSize(_)
\* SUM(file_size_mb) over a set of rows
SumSize(rows) ==
    IF rows = {} THEN 0
    ELSE LET r == CHOOSE x \in rows : TRUE
         IN  (IF r.size = NULL THEN 0 ELSE r.size) + SumSize(rows \ {r})

\* the statistics a statement recomputing the counters from the downloads
\* table would write
recompute_statement(tbl, st) ==
    [st EXCEPT !.successful_downloads = Cardinality({r \in tbl : r.st = "completed"}),
               !.mb_downloaded = SumSize({r \in tbl : r.st = "completed"})]

\* monitor.py --query stmt, with the backup at rest: the statement runs on
\* a new connection, its rows are printed, and the connection is closed
\* without a commit
MonitorQuery(stmt) ==
    /\ orch.pc = "idle"
    /\ runs >= 1
    /\ last.op # "monitor_query"
    /\ stats' = committed_after("query", IF stmt = "recompute"
                                         THEN recompute_statement(downloads, stats)
                                         ELSE stats, stats)
    /\ last' = [NoCall EXCEPT !.op = "monitor_query", !.ret = stmt]
    /\ UNCHANGED <<downloads, sites, localSize, remote, behav, orch, queues, threads,
                   runs, snap, started, killed, gaveup, conn, session, gates>>

FaultsInit ==
    /\ downloads = {}
    /\ sites = [s \in Sites |-> NoSite]
    /\ stats = InitStats
    /\ localSize = [p \in Paths |-> NULL]
    /\ remote = RemoteTwoSites
    /\ behav = [p \in Paths |-> IF p = "C" THEN "any" ELSE "ok"]
    /\ orch = IdleOrch
    /\ queues = [i \in DOMAIN RemoteTwoSites.sites |-> <<>>]
    /\ threads = [t \in ThreadIds |-> DeadThread]
    /\ runs = 0
    /\ snap = NoSnap
    /\ started = {}
    /\ killed = FALSE
    /\ last = NoCall
    /\ gaveup = {}
    /\ conn = NoConn
    /\ session = SessionOff
    /\ gates = GateOff

FaultsNext ==
    \/ runs = 0 /\ StartRun("ok")
    \/ SiteCheck
    \/ \E at \in {"get_site_status", "should_retry_failed_files"} : SiteCheckRaise(at)
    \/ \E connect \in {"ok", "none", "raise"} : SiteStart(connect)
    \/ LibStart
    \/ LibRaise
    \/ \E record_error \in BOOLEAN : Walk(record_error)
    \/ WaitQueue
    \/ \E timeout \in BOOLEAN : PollDone(timeout)
    \/ \E timeout \in BOOLEAN : JoinAll(timeout)
    \/ SiteFinal
    \/ \E reauth \in {"skip", "account", "None"} : NextSite(reauth)
    \/ \E t \in ThreadIds : WorkerGet(t)
    \/ \E t \in ThreadIds : WorkerTimeout(t)
    \/ \E t \in ThreadIds : WorkerBegin(t, FALSE)
    \/ \E t \in ThreadIds, outcome \in {"ok", "IndexError"}, gate \in {"skip", "None"} :
          WorkerAttempt(t, outcome, gate)
    \/ \E t \in ThreadIds : WorkerExhausted(t)
    \/ \E stmt \in {"select", "recompute"} : MonitorQuery(stmt)

SpecFaults == FaultsInit /\ [][FaultsNext]_vars

(***************************************************************************)
(* Specification of the session of a run: one run of main over one site,   *)
(* with the row of the run in the sessions table and the counters of the   *)
(* worker threads                                                          *)
(***************************************************************************)
SessionInit ==
    /\ downloads = {}
    /\ sites = [s \in Sites |-> NoSite]
    /\ stats = InitStats
    /\ localSize \in {[p \in Paths |-> NULL],
                      [p \in Paths |-> IF p = "B" THEN 2 * MB ELSE NULL]}
    /\ remote \in {RemoteOneLib, RemoteTwoLibs}
    /\ behav = [p \in Paths |-> "any"]
    /\ orch = IdleOrch
    /\ queues = [i \in DOMAIN remote.sites |-> <<>>]
    /\ threads = [t \in ThreadIds |-> DeadThread]
    /\ runs = 0
    /\ snap = NoSnap
    /\ started = {}
    /\ killed = FALSE
    /\ last = NoCall
    /\ gaveup = {}
    /\ conn = NoConn
    /\ session = SessionOn
    /\ gates = GateOff

SessionNext ==
    \/ \E startup \in {"ok", "output_path", "authenticate", "no_sites"} :
          runs = 0 /\ StartRun(startup)
    \/ SiteCheck
    \/ \E connect \in {"ok", "none", "raise"} : SiteStart(connect)
    \/ LibStart
    \/ Walk(FALSE)
    \/ WaitQueue
    \/ \E timeout \in BOOLEAN : PollDone(timeout)
    \/ \E timeout \in BOOLEAN : JoinAll(timeout)
    \/ SiteFinal
    \/ \E reauth \in {"skip", "account", "None"} : NextSite(reauth)
    \/ \E t \in ThreadIds : Worker(t)

SpecSession == SessionInit /\ [][SessionNext]_vars

(***************************************************************************)
(* Specification of runs over a store that earlier runs have written: file *)
(* A of the library has failed in two or three earlier runs (one attempt   *)
(* cycle per run, reset to 'discovered' by should_retry_failed_files at    *)
(* the start of the next), or the third run was killed during its download; *)
(* file B was discovered and not downloaded, or completed, or has failed in *)
(* three runs; file C belongs to a site of an earlier run that is no       *)
(* longer in the list of sites, where it failed once                       *)
(***************************************************************************)
AgedRow(p, st, att) ==
    [path |-> p, site |-> "s1", lib |-> "L1", size |-> bytes_to_mb(RemoteOneLib.size[p]),
     st |-> st, att |-> att]

AgedA == {AgedRow("A", "failed", MAX_RETRY - 1), AgedRow("A", "failed", MAX_RETRY),
          AgedRow("A", "downloading", MAX_RETRY)}
AgedB == {AgedRow("B", "discovered", 0), AgedRow("B", "completed", 1),
          AgedRow("B", "failed", MAX_RETRY)}
AgedC == [AgedRow("C", "failed", 1) EXCEPT !.site = "s2", !.lib = "L3"]

\* the statistics after these runs: each cycle that ended wrote 'failed' or
\* 'completed' once
AgedStats(a, b) ==
    [InitStats EXCEPT
       !.failed_downloads = (IF a.st = "failed" THEN a.att ELSE a.att - 1)
                            + (IF b.st = "failed" THEN b.att ELSE 0) + AgedC.att,
       !.successful_downloads = IF b.st = "completed" THEN 1 ELSE 0,
       !.mb_downloaded = IF b.st = "completed" THEN b.size ELSE 0]

\* the SiteRecord: written by update_site_status at the end of the last run,
\* or left by mark_site_started when that run was killed
AgedSites(tbl) ==
    LET other == update_site_status(mark_site_started([s \in Sites |-> NoSite], "s2"),
                                    tbl, "s2")
        marked == mark_site_started(other, "s1")
    IN  IF \E r \in tbl : r.st = "downloading" THEN marked
        ELSE update_site_status(marked, tbl, "s1")

AgedInit ==
    /\ \E a \in AgedA, b \in AgedB :
          /\ downloads = {a, b, AgedC}
          /\ stats = AgedStats(a, b)
          /\ localSize = [p \in Paths |-> IF p = "B" /\ b.st = "completed"
                                          THEN RemoteOneLib.size["B"] ELSE NULL]
    /\ sites = AgedSites(downloads)
    /\ remote = RemoteOneLib
    /\ behav = [p \in Paths |-> "any"]
    /\ orch = IdleOrch
    /\ queues = [i \in DOMAIN remote.sites |-> <<>>]
    /\ threads = [t \in ThreadIds |-> DeadThread]
    /\ runs = 0
    /\ snap = NoSnap
    /\ started = {}
    /\ killed = FALSE
    /\ last = NoCall
    /\ gaveup = {}
    /\ conn = NoConn
    /\ session = SessionOn
    /\ gates = GateOff

AgedNext ==
    \/ StartRun("ok")
    \/ SiteCheck
    \/ SiteStart("ok")
    \/ LibStart
    \/ Walk(FALSE)
    \/ WaitQueue
    \/ \E timeout \in BOOLEAN : PollDone(timeout)
    \/ \E timeout \in BOOLEAN : JoinAll(timeout)
    \/ SiteFinal
    \/ NextSite("skip")
    \/ \E t \in ThreadIds : Worker(t)
    \/ Crash

SpecAged == AgedInit /\ [][AgedNext]_vars

(***************************************************************************)
(* Specification of the walk of a folder tree: the library holds A in its  *)
(* root folder, B in a subfolder and C in a subfolder of that subfolder;   *)
(* process_folder can fail for a subfolder                                 *)
(***************************************************************************)
RemoteTree ==
    [sites |-> <<"s1">>,
     libs  |-> [s \in Sites |-> IF s = "s1" THEN <<"L1">> ELSE <<>>],
     files |-> [l \in Libraries |-> IF l = "L1" THEN <<"A", "B", "C">> ELSE <<>>],
     size  |-> [p \in Paths |-> MB],
     depth |-> [p \in Paths |-> CASE p = "A" -> 0 [] p = "B" -> 1 [] OTHER -> 2]]

\* the files of the library in the order of the walk, and the depth of the
\* folder that holds the i-th
WalkFiles == remote.files[CurLib]
DepthAt(i) == remote.depth[WalkFiles[i]]

\* the walk enters a folder of depth d at the i-th file
FolderStartsAt(d, i) == DepthAt(i) >= d /\ (i = 1 \/ DepthAt(i - 1) < d)

\* the first position after i that is outside the folder of depth d
AfterFolder(d, i) ==
    LET out == {j \in i + 1 .. Len(WalkFiles) : DepthAt(j) < d}
    IN  IF out = {} THEN Len(WalkFiles) + 1 ELSE CHOOSE j \in out : \A k \in out : j <= k

\* process_folder for a subfolder raises before its loop (os.makedirs): the
\* except branch logs and returns False, which the caller does not read; the
\* scan goes on with the item after the subfolder
ProcessFolderRaise ==
    /\ orch.pc = "walk"
    /\ orch.widx <= Len(WalkFiles)
    /\ \E d \in 1 .. DepthAt(orch.widx) :
          /\ FolderStartsAt(d, orch.widx)
          /\ orch' = [orch EXCEPT !.widx = AfterFolder(d, orch.widx)]
    /\ UNCHANGED <<downloads, sites, stats, localSize, remote, behav, queues, threads,
                   runs, snap, started, killed, last, gaveup, conn, session, gates>>

WalkInit ==
    /\ downloads = {}
    /\ sites = [s \in Sites |-> NoSite]
    /\ stats = InitStats
    /\ localSize = [p \in Paths |-> NULL]
    /\ remote = RemoteTree
    /\ behav = [p \in Paths |-> "ok"]
    /\ orch = IdleOrch
    /\ queues = [i \in DOMAIN remote.sites |-> <<>>]
    /\ threads = [t \in ThreadIds |-> DeadThread]
    /\ runs = 0
    /\ snap = NoSnap
    /\ started = {}
    /\ killed = FALSE
    /\ last = NoCall
    /\ gaveup = {}
    /\ conn = NoConn
    /\ session = SessionOff
    /\ gates = GateOff

WalkNext ==
    \/ StartRun("ok")
    \/ SiteCheck
    \/ SiteStart("ok")
    \/ LibStart
    \/ Walk(FALSE)
    \/ ProcessFolderRaise
    \/ WaitQueue
    \/ \E timeout \in BOOLEAN : PollDone(timeout)
    \/ \E timeout \in BOOLEAN : JoinAll(timeout)
    \/ SiteFinal
    \/ NextSite("skip")
    \/ \E t \in ThreadIds : WorkerGet(t)
    \/ \E t \in ThreadIds : WorkerTimeout(t)
    \/ \E t \in ThreadIds : WorkerBegin(t, FALSE)
    \/ \E t \in ThreadIds : WorkerAttempt(t, "ok", "skip")

SpecWalk == WalkInit /\ [][WalkNext]_vars

(***************************************************************************)
(* Specification of the retry loop with an error of the store: after a     *)
(* download that succeeded, update_download_status(.., 'completed') or     *)
(* get_statistics can raise (the database is locked past the timeout of    *)
(* the connection)                                                         *)
(***************************************************************************)
\* file_item.download returned a true response and the store raised before
\* "return True": the transaction is rolled back and the exception is caught
\* by the "except Exception" of the retry loop, which sleeps and goes to the
\* next attempt, or on the last attempt marks the file failed
WorkerAttemptStoreError(t) ==
    /\ threads[t].pc = "attempt"
    /\ "ok" \in Outcomes(threads[t].path, threads[t].attempt)
    /\ LET p == threads[t].path
           failed == update_download_status(downloads, stats, p, "failed", NULL)
       IN  /\ localSize' = [localSize EXCEPT ![p] = remote.size[p]]
           /\ IF has_next_attempt(threads[t].attempt)
              THEN /\ threads' = [threads EXCEPT ![t].attempt = @ + 1]
                   /\ UNCHANGED <<downloads, stats, gaveup>>
              ELSE /\ downloads' = failed.dl
                   /\ stats' = failed.stats
                   /\ threads' = [threads EXCEPT ![t] = [@ EXCEPT !.pc = "exhausted", !.tw = 1]]
                   /\ gaveup' = gaveup \cup {p}
    /\ UNCHANGED <<sites, remote, behav, orch, queues, runs, snap, started, killed,
                   last, conn, session, gates>>

StoreErrorInit ==
    /\ downloads = {}
    /\ sites = [s \in Sites |-> NoSite]
    /\ stats = InitStats
    /\ localSize = [p \in Paths |-> NULL]
    /\ remote = RemoteOneLib
    /\ behav = [p \in Paths |-> "any"]
    /\ orch = IdleOrch
    /\ queues = [i \in DOMAIN remote.sites |-> <<>>]
    /\ threads = [t \in ThreadIds |-> DeadThread]
    /\ runs = 0
    /\ snap = NoSnap
    /\ started = {}
    /\ killed = FALSE
    /\ last = NoCall
    /\ gaveup = {}
    /\ conn = NoConn
    /\ session = SessionOff
    /\ gates = GateOff

StoreErrorNext ==
    \/ StartRun("ok")
    \/ SiteCheck
    \/ SiteStart("ok")
    \/ LibStart
    \/ Walk(FALSE)
    \/ WaitQueue
    \/ \E timeout \in BOOLEAN : PollDone(timeout)
    \/ \E timeout \in BOOLEAN : JoinAll(timeout)
    \/ SiteFinal
    \/ NextSite("skip")
    \/ \E t \in ThreadIds : Worker(t)
    \/ \E t \in ThreadIds : WorkerAttemptStoreError(t)

SpecStoreError == StoreErrorInit /\ [][StoreErrorNext]_vars

(***************************************************************************)
(* Specification of the backoff of the retry loop: runs in which the       *)
(* sleeps of download_file are recorded                                    *)
(***************************************************************************)
BackoffNext ==
    \/ StartRun("ok")
    \/ SiteCheck
    \/ SiteStart("ok")
    \/ LibStart
    \/ Walk(FALSE)
    \/ WaitQueue
    \/ \E timeout \in BOOLEAN : PollDone(timeout)
    \/ \E timeout \in BOOLEAN : JoinAll(timeout)
    \/ SiteFinal
    \/ NextSite("skip")
    \/ \E t \in ThreadIds : WorkerGet(t)
    \/ \E t \in ThreadIds : WorkerTimeout(t)
    \/ \E t \in ThreadIds : WorkerBegin(t, FALSE)
    \/ \E t \in ThreadIds, outcome \in Failures \cup {"ok"} : WorkerAttemptSleep(t, outcome)
    \/ \E t \in ThreadIds : WorkerExhausted(t)

SpecBackoff == StoreErrorInit /\ [][BackoffNext]_vars

(***************************************************************************)
(* Specification of the gates: the worker threads and main take the locks  *)
(* in any interleaving while time passes                                   *)
(***************************************************************************)
GateInit ==
    /\ downloads = {}
    /\ sites = [s \in Sites |-> NoSite]
    /\ stats = InitStats
    /\ localSize = [p \in Paths |-> NULL]
    /\ remote = RemoteOneLib
    /\ behav = [p \in Paths |-> "ok"]
    /\ orch = IdleOrch
    /\ queues = [i \in DOMAIN remote.sites |-> <<>>]
    /\ threads = [t \in ThreadIds |-> DeadThread]
    /\ runs = 0
    /\ snap = NoSnap
    /\ started = {}
    /\ killed = FALSE
    /\ last = NoCall
    /\ gaveup = {}
    /\ conn = NoConn
    /\ session = SessionOff
    /\ gates = GateOff

SpecGates == GateInit /\ [][GateNext]_vars

(***************************************************************************)
(* Specification of the Engineering scenario: one run over one library of  *)
(* three files, A succeeds at once, B fails twice then succeeds, C fails   *)
(* every time; the site connects, the output folders can be created        *)
(***************************************************************************)
ScenarioInit ==
    /\ downloads = {}
    /\ sites = [s \in Sites |-> NoSite]
    /\ stats = InitStats
    /\ localSize = [p \in Paths |-> NULL]
    /\ remote = RemoteEngineering
    /\ behav = [p \in Paths |-> IF p = "A" THEN "ok" ELSE IF p = "B" THEN "fail2" ELSE "failall"]
    /\ orch = IdleOrch
    /\ queues = [i \in DOMAIN RemoteEngineering.sites |-> <<>>]
    /\ threads = [t \in ThreadIds |-> DeadThread]
    /\ runs = 0
    /\ snap = NoSnap
    /\ started = {}
    /\ killed = FALSE
    /\ last = NoCall
    /\ gaveup = {}
    /\ conn = NoConn
    /\ session = SessionOff
    /\ gates = GateOff

ScenarioNext ==
    \/ runs = 0 /\ StartRun("ok")
    \/ SiteCheck
    \/ SiteStart("ok")
    \/ LibStart
    \/ Walk(FALSE)
    \/ WaitQueue
    \/ \E timeout \in BOOLEAN : PollDone(timeout)
    \/ \E timeout \in BOOLEAN : JoinAll(timeout)
    \/ SiteFinal
    \/ NextSite("skip")
    \/ \E t \in ThreadIds : WorkerGet(t)
    \/ \E t \in ThreadIds : WorkerTimeout(t)
    \/ \E t \in ThreadIds : WorkerBegin(t, FALSE)
    \/ \E t \in ThreadIds, outcome \in Failures \cup {"ok"} : WorkerAttempt(t, outcome, "skip")
    \/ \E t \in ThreadIds : WorkerExhausted(t)

SpecScenario == ScenarioInit /\ [][ScenarioNext]_vars

(***************************************************************************)
(* Specification of a killed run and the fresh run after it, with the      *)
(* scheduling the program has: the main thread and every live worker       *)
(* thread keep running; the site connects, the output folders can be       *)
(* created, and only the first run is killed                               *)
(***************************************************************************)
LiveInit ==
    /\ downloads = {}
    /\ sites = [s \in Sites |-> NoSite]
    /\ stats = InitStats
    /\ localSize \in {[p \in Paths |-> NULL],
                      [p \in Paths |-> IF p = "B" THEN 2 * MB ELSE NULL]}
    /\ remote = RemoteOneLib
    /\ behav = [p \in Paths |-> "any"]
    /\ orch = IdleOrch
    /\ queues = [i \in DOMAIN RemoteOneLib.sites |-> <<>>]
    /\ threads = [t \in ThreadIds |-> DeadThread]
    /\ runs = 0
    /\ snap = NoSnap
    /\ started = {}
    /\ killed = FALSE
    /\ last = NoCall
    /\ gaveup = {}
    /\ conn = NoConn
    /\ session = SessionOff
    /\ gates = GateOff

LiveOrchestrator ==
    \/ StartRun("ok")
    \/ SiteCheck
    \/ SiteStart("ok")
    \/ LibStart
    \/ Walk(FALSE)
    \/ WaitQueue
    \/ \E timeout \in BOOLEAN : PollDone(timeout)
    \/ \E timeout \in BOOLEAN : JoinAll(timeout)
    \/ SiteFinal
    \/ NextSite("skip")

LiveWorker(t) ==
    \/ WorkerGet(t)
    \/ WorkerTimeout(t)
    \/ WorkerBegin(t, FALSE)
    \/ \E outcome \in Failures \cup {"ok"} : WorkerAttempt(t, outcome, "skip")
    \/ WorkerExhausted(t)

FirstRunKilled == runs = 1 /\ Crash

LiveNext ==
    \/ LiveOrchestrator
    \/ \E t \in ThreadIds : LiveWorker(t)
    \/ FirstRunKilled

SpecLive ==
    /\ LiveInit
    /\ [][LiveNext]_vars
    /\ WF_vars(LiveOrchestrator)
    /\ \A t \in ThreadIds : WF_vars(LiveWorker(t))

(***************************************************************************)
(* Specification of a resume: a first run that may be killed at any point, *)
(* then a run that is not interrupted; every download succeeds             *)
(***************************************************************************)
ResumeInit ==
    /\ downloads = {}
    /\ sites = [s \in Sites |-> NoSite]
    /\ stats = InitStats
    /\ localSize = [p \in Paths |-> NULL]
    /\ remote \in {RemoteOneLib, RemoteTwoLibs}
    /\ behav = [p \in Paths |-> "ok"]
    /\ orch = IdleOrch
    /\ queues = [i \in DOMAIN remote.sites |-> <<>>]
    /\ threads = [t \in ThreadIds |-> DeadThread]
    /\ runs = 0
    /\ snap = NoSnap
    /\ started = {}
    /\ killed = FALSE
    /\ last = NoCall
    /\ gaveup = {}
    /\ conn = NoConn
    /\ session = SessionOff
    /\ gates = GateOff

ResumeNext ==
    \/ StartRun("ok")
    \/ SiteCheck
    \/ SiteStart("ok")
    \/ LibStart
    \/ Walk(FALSE)
    \/ WaitQueue
    \/ \E timeout \in BOOLEAN : PollDone(timeout)
    \/ \E timeout \in BOOLEAN : JoinAll(timeout)
    \/ SiteFinal
    \/ NextSite("skip")
    \/ \E t \in ThreadIds : WorkerGet(t)
    \/ \E t \in ThreadIds : WorkerTimeout(t)
    \/ \E t \in ThreadIds : WorkerBegin(t, FALSE)
    \/ \E t \in ThreadIds : WorkerAttempt(t, "ok", "skip")
    \/ FirstRunKilled

SpecResume == ResumeInit /\ [][ResumeNext]_vars

(***************************************************************************)
(* Properties                                                              *)
(***************************************************************************)
\* the rollup of a site's rows: status and true counts
Rollup(tbl, s) ==
    [st |-> site_status_of_counts(CountSite(tbl, s), CountSiteStatus(tbl, s, "completed"),
                                  CountSiteStatus(tbl, s, "failed")),
     total |-> CountSite(tbl, s),
     completed |-> CountSiteStatus(tbl, s, "completed"),
     failed |-> CountSiteStatus(tbl, s, "failed")]

InQueue(q, p) == \E k \in DOMAIN q : q[k] = p

\* C1: a file whose row was completed when a run was killed is never put
\* in a queue, never taken by a worker thread (so its download is never
\* invoked), and its status and attempt_count never change afterwards.
C1_CompletedNeverRedone ==
    [][\A p \in Paths : snap[p] = "completed" =>
          /\ get_file_status(downloads', p) = get_file_status(downloads, p)
          /\ \A i \in DOMAIN queues' : ~InQueue(queues'[i], p)
          /\ \A t \in ThreadIds : threads'[t].path # p]_vars

\* the fresh run's walker has gone past completed file A of a library
\* that is processed again because its file B is not completed
C1_Witness ==
    /\ killed /\ runs = 2
    /\ remote = RemoteOneLib
    /\ snap["A"] = "completed"
    /\ orch.pc = "walk" /\ orch.widx = 3
    /\ InQueue(queues[1], "B")

\* the worker pool of the pass cannot take a job any more: the scan or the
\* wait for the queue goes on with every thread of the pass stopped
PoolDead == orch.pc = "walk" /\ \A t \in orch.threads : threads[t].pc = "dead"

\* C2: a kill leaves the store as it is, and a row that was discovered or
\* downloading when the run was killed has download_file started for it in
\* a fresh run that finds it so, as long as a worker of the pass is alive;
\* a row found in downloading is not skipped.
C2_UnfinishedResumed ==
    /\ [][snap' # snap => downloads' = downloads
                          /\ \A p \in Paths : StatusOf(downloads', p) = snap'[p]]_vars
    /\ \A p \in {"A", "B"} :
          (/\ orch.pc = "site" /\ killed
           /\ snap[p] \in {"discovered", "downloading"}
           /\ StatusOf(downloads, p) = snap[p])
             ~> (p \in started \/ PoolDead)

\* the run was killed with A in downloading, and the fresh run has called
\* download_file for A
C2_Witness ==
    /\ killed /\ runs = 2
    /\ snap["A"] = "downloading"
    /\ "A" \in started

\* C3: when download_file returns after all its attempts failed, the row
\* is failed with attempt_count = MAX_RETRY.
C3_RetryBound ==
    [][\A t \in ThreadIds :
          (threads[t].pc = "exhausted" /\ threads'[t].pc = "get") =>
             /\ StatusOf(downloads', threads[t].path) = "failed"
             /\ AttemptsOf(downloads', threads[t].path) = MAX_RETRY]_vars

\* C4: after a terminal status write of its cycle, a thread inside
\* download_file writes nothing more to the downloads table or the
\* statistics.
C4_OneTerminalWrite ==
    [][\A t \in ThreadIds :
          (InCycle(t) /\ threads[t].tw = 1 /\ threads'[t] # threads[t]) =>
             (downloads' = downloads /\ stats' = stats)]_vars

\* C5: when no run was killed and no worker is inside download_file, no
\* row is downloading.
C5_NoDownloadingAtRest ==
    (~killed /\ \A t \in ThreadIds : ~InCycle(t)) =>
        \A r \in downloads : r.st # "downloading"

\* C6: after the run of the Engineering scenario the rollup is total 3,
\* completed 2, failed 1, the site is completed_with_errors,
\* successful_downloads = 2 and failed_downloads = 1.
C6_EngineeringScenario ==
    (runs = 1 /\ orch.pc = "idle") =>
        /\ sites["s1"] = [st |-> "completed_with_errors", total |-> 3,
                          completed |-> 2, failed |-> 1]
        /\ stats.successful_downloads = 2
        /\ stats.failed_downloads = 1

\* C7: when download_file finds the local file with the remote size, it
\* does not download, the row becomes completed and skipped_existing
\* grows by exactly 1.
C7_SkipOnSizeMatch ==
    [][\A t \in ThreadIds :
          (/\ threads[t].pc = "begin" /\ threads'[t].pc = "get"
           /\ size_matches(localSize[threads[t].path], remote.size[threads[t].path])
           /\ StatusOf(downloads', threads[t].path) = "completed") =>
             /\ localSize' = localSize
             /\ stats'.skipped_existing = stats.skipped_existing + 1]_vars

C9_RollupWritten ==
    (last.op = "update_site_status" /\ last.existed) =>
        sites[last.site] = Rollup(downloads, last.site)

\* C10: when no run is in progress, after runs that all returned, every
\* existing SiteRecord equals the rollup of the site's rows.
C10_NotStaleAtRest ==
    (orch.pc = "idle" /\ runs >= 1 /\ ~killed) =>
        \A s \in Sites : sites[s].st # "absent" => sites[s] = Rollup(downloads, s)

C12_ResetCount ==
    [][last'.op = "reset_site" =>
          last'.count = Cardinality({r \in downloads :
                                        r.site = last'.site /\ r.st # "completed"})]_vars

\* C13: a file marked failed because its retry loop ran out of attempts
\* has no download invoked for it again, unless its site was reset since.
C13_NoAutomaticRetry ==
    [][\A t \in ThreadIds :
          (/\ threads[t].pc = "attempt"
           /\ threads'[t] # threads[t]
           /\ threads'[t].pc # "dead") => threads[t].path \notin gaveup]_vars

ResetChange(a, b) ==
    \/ a = "None" /\ b = "discovered"
    \/ a \in {"discovered", "downloading", "failed"} /\ b = "discovered"

C19_SiteErrorRecomputed ==
    [][(orch.pc = "start" /\ orch'.pc = "next") =>
          sites'[CurSite] = update_site_status(sites', downloads', CurSite)[CurSite]]_vars

\* C17: a recompute of the counters run through the program (the statement
\* given to monitor.py --query, the only entry that takes one) leaves
\* successful_downloads equal to the number of completed rows and
\* mb_downloaded equal to the sum of their sizes.
C17_RecomputeSetsCounters ==
    [][(last'.op = "monitor_query" /\ last.op # "monitor_query" /\ last'.ret = "recompute") =>
          /\ stats'.successful_downloads =
                Cardinality({r \in downloads' : r.st = "completed"})
          /\ stats'.mb_downloaded = SumSize({r \in downloads' : r.st = "completed"})]_vars

\* C18: no exception in library or site processing aborts the run. A step
\* taken inside the processing of library i stays in library i or goes on
\* to library i+1 of the same site with the same list of libraries; the
\* library loop is left only after its last library, by the write of the
\* site's recomputed status; a step taken in the processing of site j stays
\* in site j or goes on to site j+1; and the run ends only after its last
\* site or by a failed re-authentication of main.
C18_FailureIsolation ==
    [][/\ (orch.pc \in {"walk", "poll", "join"} /\ orch' # orch) =>
            /\ orch'.idx = orch.idx /\ orch'.libs = orch.libs
            /\ \/ orch'.lidx = orch.lidx /\ orch'.pc \in {"walk", "poll", "join"}
               \/ orch'.lidx = orch.lidx + 1 /\ orch'.pc = "lib"
       /\ (orch.pc = "lib" /\ orch' # orch) =>
            /\ orch'.idx = orch.idx /\ orch'.libs = orch.libs
            /\ \/ orch'.lidx = orch.lidx /\ orch'.pc = "walk"
               \/ orch'.lidx = orch.lidx + 1 /\ orch'.pc = "lib"
               \/ /\ orch.lidx > Len(orch.libs) /\ orch'.pc = "next"
                  /\ sites'[CurSite] = update_site_status(sites, downloads, CurSite)[CurSite]
       /\ (orch.pc \in {"site", "start", "next"} /\ orch' # orch) =>
            \/ orch'.idx = orch.idx /\ orch'.pc # "idle"
            \/ orch'.idx = orch.idx + 1 /\ orch'.pc = "site"
            \/ /\ orch'.pc = "idle"
               /\ \/ orch.idx = Len(remote.sites)
                  \/ orch.pc = "next" /\ last' = AuthFailure("-") /\ last' # last]_vars

\* site s2 ended on an exception (its status was recomputed on no rows) and
\* site s1 was processed after it; there library L1 raised before its file
\* A was recorded, library L2 was processed after it, its file B is
\* completed, and the status of s1 was recomputed from its rows
C18_Witness ==
    /\ remote = RemoteTwoSites
    /\ orch.pc = "next" /\ orch.idx = 2
    /\ sites["s2"].st = "empty"
    /\ last.op = "library_error" /\ last.site = "s1" /\ last.lib = "L1"
    /\ StatusOf(downloads, "A") = "None" /\ localSize["A"] = NULL
    /\ StatusOf(downloads, "B") = "completed"
    /\ sites["s1"] = Rollup(downloads, "s1")

\* C20: once a re-authentication has failed, in main or in a worker's
\* refresh_token_if_needed, no further site is started.
C20_AuthFailureHalts ==
    [][(last.op = "authenticate" /\ last.ret = "None") =>
          ~(orch'.pc = "site" /\ orch.pc # "site")]_vars

\* C21: every file in a download queue has a row in the downloads table
\* (a failure to record its discovery is not followed by its enqueuing).
C21_EnqueuedHaveRecord ==
    \A i \in DOMAIN queues : \A k \in DOMAIN queues[i] :
        queues[i][k] # SENTINEL => HasRow(downloads, queues[i][k])

\* C22: when the run has ended, the files_processed and files_downloaded of
\* its session equal the numbers of files processed and downloaded by all
\* the workers of the run.
C22_SessionTotals ==
    (orch.pc = "idle" /\ session.id # NULL /\ session.end_time # NULL) =>
        /\ session.files_processed = session.total.files_processed
        /\ session.files_downloaded = session.total.files_downloaded

\* C23: when main has returned after create_session, the end_time of the
\* session is set.
C23_SessionClosed ==
    (orch.pc = "idle" /\ session.id # NULL) => session.end_time # NULL

\* C24: a library pass whose scan has started eventually leaves the scan
\* and the wait for the empty queue: the orchestrator goes on to the poll
\* (or the run is killed).
C24_LibraryPassEnds ==
    (orch.pc = "walk") ~> (orch.pc \in {"poll", "idle"})

\* C25: whenever a worker of the current library pass can time out on the
\* empty queue, its decision to retire (no active download) is the same as
\* "no row of its own site and library is downloading".
C25_RetirementScoped ==
    \A t \in orch.threads :
        (orch.pc \in {"walk", "poll", "join"} /\ threads[t].pc = "get"
            /\ queues[threads[t].q] = <<>>) =>
           ((active_downloads(downloads) = 0) <=>
            (downloading_count(downloads, CurSite, CurLib) = 0))

\* C26: when the workers started for a library pass have all stopped and
\* the orchestrator has left the pass, no sentinel remains in the queue
\* (each worker has consumed exactly one).
C26_NoSentinelLeft ==
    (orch.pc = "lib" /\ \A t \in ThreadIds : threads[t].pc = "dead") =>
        ~InQueue(queues[orch.idx], SENTINEL)

\* C27: at the moment the orchestrator starts the workers of a library, the
\* queue is empty: it holds no work item and no sentinel of a library
\* processed before.
C27_QueueEmptyAtLibStart ==
    [][(orch.pc = "lib" /\ orch'.pc = "walk") => queues[orch.idx] = <<>>]_vars

\* C28: no work item is ever in a queue behind a sentinel.
C28_NoItemBehindSentinel ==
    \A i \in DOMAIN queues : \A j, k \in DOMAIN queues[i] :
        (j < k /\ queues[i][j] = SENTINEL) => queues[i][k] = SENTINEL

\* C29: at most NUM_THREADS worker threads are alive.
C29_BoundedConcurrency ==
    Cardinality({t \in ThreadIds : threads[t].pc # "dead"}) <= NUM_THREADS

\* C30: when the libraries to process are chosen, a library is left out if
\* and only if the site has at least one row and no row of the library is
\* other than completed.
C30_LibrarySkipRule ==
    orch.pc = "start" =>
        \A k \in DOMAIN remote.libs[CurSite] :
            LET l == remote.libs[CurSite][k]
            IN  ~library_needs_processing(downloads, CurSite, l, orch.site_status) <=>
                   (CountSite(downloads, CurSite) > 0
                       /\ incomplete_count(downloads, CurSite, l) = 0)

\* C31: after a first run that was killed and a second run that returned,
\* every file of every library of the site has a row in the downloads
\* table (none was left out of discovery).
C31_ResumeDiscoversAll ==
    (runs = 2 /\ orch.pc = "idle" /\ killed) =>
        \A s \in Sites : \A k \in DOMAIN remote.libs[s] :
            \A j \in DOMAIN remote.files[remote.libs[s][k]] :
                HasRow(downloads, remote.files[remote.libs[s][k]][j])

\* C32: when a worker dequeues a file whose record is failed with
\* attempt_count >= MAX_RETRY, no thread enters download_file, the record,
\* the statistics and the local file are unchanged, and the file is counted
\* as processed (and not as downloaded).
C32_ExhaustedSkipped ==
    [][\A t \in ThreadIds :
         (/\ WorkerGet(t)
          /\ Head(queues[threads[t].q]) # SENTINEL
          /\ StatusOf(downloads, Head(queues[threads[t].q])) = "failed"
          /\ AttemptsOf(downloads, Head(queues[threads[t].q])) >= MAX_RETRY)
         => /\ threads' = threads
            /\ downloads' = downloads
            /\ stats' = stats
            /\ localSize' = localSize
            /\ started' = started
            /\ session'.total.files_processed = session.total.files_processed + 1
            /\ session'.total.files_downloaded = session.total.files_downloaded]_vars

\* C32 witness: in the first run over the aged store the exhausted file A
\* was enqueued and dequeued, and was counted as processed without a call
\* of download_file
C32_Witness ==
    /\ runs = 1
    /\ orch.pc = "walk"
    /\ orch.widx = 2
    /\ queues[orch.idx] = <<>>
    /\ StatusOf(downloads, "A") = "failed"
    /\ AttemptsOf(downloads, "A") >= MAX_RETRY
    /\ "A" \notin started
    /\ session.total.files_processed = 1

\* C33: when backup_sharepoint_site calls should_retry_failed_files for a
\* site, the rows of that site that are failed with attempt_count <
\* MAX_RETRY become discovered with the same attempt_count, and every other
\* row of the downloads table is unchanged; no row is added or removed.
C33_RetryResetFrame ==
    [][(SiteCheck /\ get_site_status_result(sites, downloads, CurSite).needs)
       => downloads' =
            {IF r.site = CurSite /\ r.st = "failed" /\ r.att < MAX_RETRY
             THEN [r EXCEPT !.st = "discovered"] ELSE r : r \in downloads}]_vars

\* C33 witness: after the reset at the start of the site, A (failed twice)
\* is discovered with its two attempts, B (failed three times) and C (failed
\* once, other site) are still failed
C33_Witness ==
    /\ runs = 1
    /\ orch.pc = "start"
    /\ StatusOf(downloads, "A") = "discovered"
    /\ AttemptsOf(downloads, "A") = MAX_RETRY - 1
    /\ StatusOf(downloads, "B") = "failed"
    /\ AttemptsOf(downloads, "B") = MAX_RETRY
    /\ StatusOf(downloads, "C") = "failed"
    /\ RowOf(downloads, "C").site # CurSite

\* C34: when the scan of a library is over, every file of the library's
\* folder tree has a row in the downloads table (it was recorded when it
\* was visited, or it was completed before).
C34_WalkRecordsAll ==
    (orch.pc = "walk" /\ orch.widx > Len(remote.files[CurLib])) =>
        \A j \in DOMAIN remote.files[CurLib] :
            HasRow(downloads, remote.files[CurLib][j])

\* C35: an invocation of the download capability that succeeds (the local
\* file is written) is the last of its attempt cycle: the thread leaves
\* download_file in that step and the record of the file is completed.
C35_SuccessEndsCycle ==
    [][\A t \in ThreadIds :
         (/\ threads[t].pc = "attempt"
          /\ threads'[t] # threads[t]
          /\ localSize'[threads[t].path] = remote.size[threads[t].path]
          /\ \/ WorkerAttempt(t, "ok", "skip")
             \/ WorkerAttemptStoreError(t))
         => /\ threads'[t].pc = "get"
            /\ StatusOf(downloads', threads[t].path) = "completed"]_vars

\* C36: after the k-th failed attempt of a file, k < MAX_RETRY, the worker
\* sleeps API_RETRY_DELAY * k seconds, whatever the kind of the failure;
\* after the last failed attempt and after a success it does not sleep.
C36_LinearBackoff ==
    [][\A t \in ThreadIds, outcome \in Failures \cup {"ok"} :
         WorkerAttemptSleep(t, outcome) =>
            IF outcome # "ok" /\ threads[t].attempt + 1 < MAX_RETRY
            THEN /\ last'.op = "time.sleep"
                 /\ last'.count = API_RETRY_DELAY * (threads[t].attempt + 1)
            ELSE last'.op # "time.sleep"]_vars

\* C37: at most one caller is inside a token refresh and at most one is
\* inside a database backup at any time; a refresh (a backup) is started
\* only when there was no successful one before, or more than the interval
\* has passed since the reading of the clock of the last successful one.
C37_GatesSingleTrigger ==
    [][/\ Cardinality({c \in Callers :
                         gates'.pc[c] \in {"refreshing", "want_account_lock", "account_exit"}
                         /\ c # MAIN}) <= 1
       /\ Cardinality({c \in Callers : gates'.pc[c] = "backing_up"}) <= 1
       /\ \A c \in Callers :
            /\ (gates.pc[c] # "refreshing" /\ gates'.pc[c] = "refreshing")
                  => (gates.ok_at = NULL \/ gates.now - gates.ok_at > TokenInterval)
            /\ (gates.pc[c] # "backing_up" /\ gates'.pc[c] = "backing_up")
                  => (gates.bk_at = NULL \/ gates.now - gates.bk_at > BackupInterval)]_vars

\* C37 witness: a refresh has succeeded, and a second caller that came to
\* the token gate within the interval is leaving it without a refresh while
\* a third one waits for the lock
C37_Witness ==
    /\ gates.ok_at # NULL
    /\ gates.now - gates.ok_at <= TokenInterval
    /\ \E c, d \in ThreadIds :
          /\ c # d
          /\ gates.pc[c] = "token_exit"
          /\ gates.taken[c] >= gates.ok_at
          /\ gates.lock["token_refresh_lock"] = c
          /\ gates.pc[d] = "want_token_refresh_lock"

\* a non-empty set of callers each of which waits for a lock that is held
\* by a caller of the set
WaitsFor(c) ==
    CASE gates.pc[c] = "want_file_counter_lock" -> "file_counter_lock"
      [] gates.pc[c] = "want_token_refresh_lock" -> "token_refresh_lock"
      [] gates.pc[c] = "want_db_backup_lock" -> "db_backup_lock"
      [] gates.pc[c] = "want_account_lock" -> "account_lock"
      [] OTHER -> "-"

\* C38: no set of threads is reachable in which every thread waits for a
\* lock held by a thread of the set (a thread that waits for a lock it holds
\* itself included).
C38_NoLockCycle ==
    \A S \in SUBSET Callers :
        S # {} => \E c \in S : WaitsFor(c) = "-" \/ gates.lock[WaitsFor(c)] \notin S

\* C38 witness: three locks are held by a worker that waits for none, a second
\* worker waits for the lock of the file counter and main waits for account_lock
C38_Witness ==
    \E c, d \in ThreadIds :
        /\ c # d
        /\ gates.lock["file_counter_lock"] = c
        /\ gates.lock["token_refresh_lock"] = c
        /\ gates.lock["account_lock"] = c
        /\ WaitsFor(d) = "file_counter_lock"
        /\ WaitsFor(MAIN) = "account_lock"

\* C39: every row of the downloads table has attempt_count <= MAX_RETRY.
C39_AttemptCountBounded ==
    \A r \in downloads : r.att <= MAX_RETRY

\* C40: when no worker is inside download_file, successful_downloads is
\* the number of completed rows and failed_downloads the number of failed
\* rows of the downloads table.
C40_CountersMatchRecords ==
    (\A t \in ThreadIds : ~InCycle(t)) =>
        /\ stats.successful_downloads = Cardinality({r \in downloads : r.st = "completed"})
        /\ stats.failed_downloads = Cardinality({r \in downloads : r.st = "failed"})

=============================================================================
